---- MODULE Spec2Model ----
(***************************************************************************)
(* FloraWatch analysis core: the flowering-event detector                  *)
(* (FloraWatch/backend/src/algorithms/flowering_detector.py) and the       *)
(* time-series cleaner (backend/src/utils/data_processor.py).              *)
(*                                                                         *)
(* Representation.                                                         *)
(*  - A date string "YYYY-MM-DD" is the triple <<Y, M, D>> of its numeric  *)
(*    fields; a datetime is its proleptic Gregorian ordinal (the number    *)
(*    datetime.toordinal() gives), so that differences are days.           *)
(*  - A float array is a record [num |-> <<integers>>, den |-> d]: element *)
(*    i is the exact rational num[i]/d.  Input values are given in         *)
(*    hundredths (den = 100).  Comparisons are done exactly, by            *)
(*    cross-multiplication.                                                *)
(*  - A float scalar that goes through a square root (the confidence) is   *)
(*    an extended fixed-point number [k, v]: k is "fin", "nan", "inf" or   *)
(*    "-inf" (the IEEE specials numpy produces on a division by zero) and  *)
(*    v is the value in thousandths, rounded down.                         *)
(*  - A raised exception is a result [exc |-> name]; a normal return has   *)
(*    exc = "none".                                                        *)
(***************************************************************************)
EXTENDS Integers, Sequences, FiniteSets, TLC

\* ------------------------------------------------------------------------
\* Small arithmetic helpers
\* ------------------------------------------------------------------------

Abs(x) == IF x < 0 THEN -x ELSE x

\* f itself, evaluated once: TLC keeps a function constructor [i \in S |-> e]
\* unevaluated and would recompute e at every application
Eager(f) == IF f = f THEN f ELSE f

Min2(a, b) == IF a <= b THEN a ELSE b

Max2(a, b) == IF a >= b THEN a ELSE b

RECURSIVE Gcd(_, _)
Gcd(a, b) == IF b = 0 THEN Abs(a) ELSE Gcd(Abs(b), Abs(a) % Abs(b))

RECURSIVE SumSeq(_)
SumSeq(s) == IF s = <<>> THEN 0 ELSE Head(s) + SumSeq(Tail(s))

RECURSIVE SumSq(_)
SumSq(s) == IF s = <<>> THEN 0 ELSE Head(s) * Head(s) + SumSq(Tail(s))

RECURSIVE GcdSeq(_)
GcdSeq(s) == IF s = <<>> THEN 0 ELSE Gcd(Head(s), GcdSeq(Tail(s)))

RECURSIVE Factorial(_)
Factorial(n) == IF n <= 1 THEN 1 ELSE n * Factorial(n - 1)

\* floor(sqrt(q)) for q >= 0, by bisection on [lo, hi]
RECURSIVE ISqrtIn(_, _, _)
ISqrtIn(q, lo, hi) ==
    IF lo >= hi THEN lo
    ELSE LET mid == (lo + hi + 1) \div 2
         IN IF mid * mid <= q THEN ISqrtIn(q, mid, hi) ELSE ISqrtIn(q, lo, mid - 1)

ISqrt(q) == ISqrtIn(q, 0, Min2(q, 46340))

\* The array with every numerator divided by their common divisor: the same
\* array up to a positive factor, for the scale-free tests (a ratio of two
\* statistics of one array) whose squares must stay within 32 bits.
Normalised(nums) ==
    LET g == GcdSeq(nums)
    IN IF g <= 1 THEN nums ELSE Eager([i \in 1..Len(nums) |-> nums[i] \div g])

\* n * sum(x^2) - (sum x)^2 = n^2 * var(x): zero iff the array is constant
NSquaredVar(nums) == Len(nums) * SumSq(nums) - SumSeq(nums) * SumSeq(nums)

\* ------------------------------------------------------------------------
\* Dates: datetime.strptime(d, '%Y-%m-%d'), strftime('%Y-%m-%d'),
\* timetuple().tm_yday and (a - b).days
\* ------------------------------------------------------------------------

IsLeap(y) == (y % 4 = 0 /\ y % 100 # 0) \/ y % 400 = 0

DaysInYear(y) == IF IsLeap(y) THEN 366 ELSE 365

DaysInMonth(y, m) ==
    IF m = 2 THEN (IF IsLeap(y) THEN 29 ELSE 28)
    ELSE IF m \in {4, 6, 9, 11} THEN 30 ELSE 31

RECURSIVE DaysBeforeMonth(_, _)
DaysBeforeMonth(y, m) ==
    IF m <= 1 THEN 0 ELSE DaysBeforeMonth(y, m - 1) + DaysInMonth(y, m - 1)

DaysBeforeYear(y) ==
    LET p == y - 1 IN 365 * p + (p \div 4) - (p \div 100) + (p \div 400)

\* strptime accepts the string iff its fields form a calendar date
ValidDateString(s) ==
    /\ s[1] \in 1..9999
    /\ s[2] \in 1..12
    /\ s[3] \in 1..DaysInMonth(s[1], s[2])

\* the datetime of a valid string, as its ordinal
Strptime(s) == DaysBeforeYear(s[1]) + DaysBeforeMonth(s[1], s[2]) + s[3]

RECURSIVE YearOfFrom(_, _)
YearOfFrom(ord, y) ==
    IF DaysBeforeYear(y + 1) < ord THEN YearOfFrom(ord, y + 1) ELSE y

YearOf(ord) == YearOfFrom(ord, (ord \div 366) + 1)

\* timetuple().tm_yday
DayOfYear(ord) == ord - DaysBeforeYear(YearOf(ord))

RECURSIVE MonthOfFrom(_, _, _)
MonthOfFrom(y, yday, m) ==
    IF DaysBeforeMonth(y, m + 1) < yday THEN MonthOfFrom(y, yday, m + 1) ELSE m

\* strftime('%Y-%m-%d')
Strftime(ord) ==
    LET y == YearOf(ord)
        yday == DayOfYear(ord)
        m == MonthOfFrom(y, yday, 1)
    IN <<y, m, yday - DaysBeforeMonth(y, m)>>

\* ------------------------------------------------------------------------
\* FloweringDetector.__init__: the strategy table and the configuration
\* ------------------------------------------------------------------------

detection_algorithms ==
    {"threshold", "change_detection", "seasonal_anomaly", "machine_learning"}

\* 0.15, as a rational
ndvi_flowering_threshold == [num |-> 15, den |-> 100]

min_duration_days == 5

max_duration_days == 45

smoothing_window == 3

\* 2.0
anomaly_threshold_sigma == 2

\* ------------------------------------------------------------------------
\* pandas: Series.rolling(window=w, center=True, min_periods=1).mean()
\* ------------------------------------------------------------------------

\* the (1-based, inclusive) window of index i: pandas' fixed indexer with
\* offset (w - 1) // 2, clipped to the array
WindowLo(i, w) == Max2(1, i + ((w - 1) \div 2) - w + 1)

WindowHi(i, w, n) == Min2(n, i + ((w - 1) \div 2))

RECURSIVE SumRange(_, _, _)
SumRange(nums, lo, hi) ==
    IF lo > hi THEN 0 ELSE nums[lo] + SumRange(nums, lo + 1, hi)

\* the rolling mean of array a, exactly: every window holds between 1 and w
\* elements, so w! times the mean is an integer multiple of 1/den
RollingMean(a, w) ==
    LET n == Len(a.num)
        f == Factorial(w)
    IN [num |-> Eager([i \in 1..n |->
                   LET lo == WindowLo(i, w)
                       hi == WindowHi(i, w, n)
                   IN (SumRange(a.num, lo, hi) * f) \div (hi - lo + 1)]),
        den |-> a.den * f]

\* FloweringDetector._smooth_time_series
SmoothTimeSeries(a) ==
    IF Len(a.num) < smoothing_window THEN a ELSE RollingMean(a, smoothing_window)

\* ------------------------------------------------------------------------
\* Extended fixed-point numbers: numpy float64 scalars with the IEEE
\* specials, in thousandths
\* ------------------------------------------------------------------------

Fin(v) == [k |-> "fin", v |-> v]

NaN == [k |-> "nan", v |-> 0]

PosInf == [k |-> "inf", v |-> 0]

NegInf == [k |-> "-inf", v |-> 0]

One == Fin(1000)

Zero == Fin(0)

IsFinite(x) == x.k = "fin"

\* a < b on floats: false as soon as one side is nan
XLt(a, b) ==
    CASE a.k = "nan" \/ b.k = "nan" -> FALSE
      [] a.k = "-inf" -> b.k # "-inf"
      [] a.k = "inf" -> FALSE
      [] OTHER -> b.k = "inf" \/ (b.k = "fin" /\ a.v < b.v)

\* Python's builtin min(a, b): b only if b < a, so min(1.0, nan) is 1.0
PyMin(a, b) == IF XLt(b, a) THEN b ELSE a

\* Python's builtin max(a, b): b only if b > a
PyMax(a, b) == IF XLt(a, b) THEN b ELSE a

XNeg(a) ==
    CASE a.k = "inf" -> NegInf
      [] a.k = "-inf" -> PosInf
      [] a.k = "nan" -> NaN
      [] OTHER -> Fin(-a.v)

XAdd(a, b) ==
    CASE a.k = "nan" \/ b.k = "nan" -> NaN
      [] a.k = "fin" /\ b.k = "fin" -> Fin(a.v + b.v)
      [] a.k = "fin" -> b
      [] b.k = "fin" -> a
      [] a.k = b.k -> a
      [] OTHER -> NaN

XSub(a, b) == XAdd(a, XNeg(b))

\* a * (wnum / wden) for a positive finite weight
XTimes(a, wnum, wden) == IF a.k = "fin" THEN Fin((a.v * wnum) \div wden) ELSE a

\* the float64 quotient a / b of two numbers given in one unit: numpy does
\* not raise on b = 0, it returns inf, -inf or nan
XDivInt(a, b) ==
    IF b = 0
    THEN (IF a > 0 THEN PosInf ELSE IF a < 0 THEN NegInf ELSE NaN)
    ELSE Fin((a * 1000) \div b)

\* floor(64 * sqrt(q)), to 1/64 for small q
SqrtScaled(q) == IF q <= 500000 THEN ISqrt(q * 4096) ELSE 64 * ISqrt(q)

\* a / sqrt(q), q >= 0
XDivSqrt(a, q) ==
    IF q = 0
    THEN (IF a > 0 THEN PosInf ELSE IF a < 0 THEN NegInf ELSE NaN)
    ELSE Fin((a * 64000) \div SqrtScaled(q))

\* sqrt(q) / b, q >= 0
XSqrtDiv(q, b) ==
    IF b = 0
    THEN (IF q > 0 THEN PosInf ELSE NaN)
    ELSE Fin((SqrtScaled(q) * 1000) \div (64 * b))

\* ------------------------------------------------------------------------
\* FloweringDetector._calculate_confidence
\* ------------------------------------------------------------------------

\* a mutation of ClipUnit: the weighted sum is returned as it is
NoClip(x) == x

\* line 396, max(0.0, min(1.0, confidence)): with Python's min and max a nan
\* comes out as 1.0, +inf as 1.0 and -inf as 0.0
ClipUnit(x) == PyMax(Zero, PyMin(One, x))

RECURSIVE MaxSeq(_)
MaxSeq(s) == IF Len(s) = 1 THEN s[1] ELSE Max2(Head(s), MaxSeq(Tail(s)))

RECURSIVE MinSeq(_)
MinSeq(s) == IF Len(s) = 1 THEN s[1] ELSE Min2(Head(s), MinSeq(Tail(s)))

\* event_indices: a list of (1-based) indices into nums.  With n = len(all),
\* k = len(event), S = sum: mean = S/n and std = sqrt(n*sum(x^2) - S^2)/n.
CalculateConfidence(event_indices, nums) ==
    IF event_indices = <<>> THEN Zero
    ELSE
      LET all == Normalised(nums)
          ev == Eager([j \in 1..Len(event_indices) |-> all[event_indices[j]]])
          n == Len(all)
          k == Len(ev)
          intensity ==
              PyMin(One, XDivSqrt(n * MaxSeq(ev) - SumSeq(all), NSquaredVar(all)))
          duration == PyMin(One, XDivInt(k, 5))
          consistency ==
              IF SumSeq(ev) > 0
              THEN XSub(One, XSqrtDiv(NSquaredVar(ev), SumSeq(ev)))
              ELSE Zero
          contrast ==
              PyMin(One, XSub(XDivInt(n * SumSeq(ev), k * SumSeq(all)), One))
          confidence ==
              XAdd(XAdd(XAdd(XAdd(Zero, XTimes(intensity, 4, 10)),
                             XTimes(duration, 2, 10)),
                        XTimes(consistency, 2, 10)),
                   XTimes(contrast, 2, 10))
      IN ClipUnit(confidence)

\* ------------------------------------------------------------------------
\* FloweringDetector._group_consecutive_exceedances
\* ------------------------------------------------------------------------

\* the maximal runs of true indices, in order
RECURSIVE Groups(_, _, _)
Groups(exceedances, i, current_group) ==
    LET flush == IF current_group # <<>> THEN <<current_group>> ELSE <<>>
    IN IF i > Len(exceedances) THEN flush
       ELSE IF exceedances[i]
            THEN Groups(exceedances, i + 1, Append(current_group, i))
            ELSE flush \o Groups(exceedances, i + 1, <<>>)

\* a mutation of ArgMaxIn: the first index of the group is the peak
FirstIn(nums, group) == group[1]

\* np.argmax over the group's values: the first index holding the maximum
ArgMaxIn(nums, group) ==
    LET m == MaxSeq([j \in 1..Len(group) |-> nums[group[j]]])
        first == CHOOSE j \in 1..Len(group) :
                    /\ nums[group[j]] = m
                    /\ \A h \in 1..(j - 1) : nums[group[h]] # m
    IN group[first]

\* the event record of both producers
MakeEvent(dates, a, start_idx, end_idx, peak_idx, indices) ==
    [start_date |-> Strftime(dates[start_idx]),
     end_date |-> Strftime(dates[end_idx]),
     peak_date |-> Strftime(dates[peak_idx]),
     duration_days |-> dates[end_idx] - dates[start_idx],
     peak_value |-> [num |-> a.num[peak_idx], den |-> a.den],
     intensity |-> [num |-> Len(a.num) * a.num[peak_idx] - SumSeq(a.num),
                    den |-> Len(a.num) * a.den],
     confidence |-> CalculateConfidence(indices, a.num)]

\* a mutation of GroupEvent: the duration filter is dropped
GroupEventNoDurationFilter(dates, a, group) ==
    IF Len(group) >= 2
    THEN <<MakeEvent(dates, a, group[1], group[Len(group)],
                     ArgMaxIn(a.num, group), group)>>
    ELSE <<>>

\* the body of the loop over groups: zero or one event
GroupEvent(dates, a, group) ==
    IF Len(group) >= 2
    THEN LET start_idx == group[1]
             end_idx == group[Len(group)]
             peak_idx == ArgMaxIn(a.num, group)
             duration == dates[end_idx] - dates[start_idx]
         IN IF min_duration_days <= duration /\ duration <= max_duration_days
            THEN <<MakeEvent(dates, a, start_idx, end_idx, peak_idx, group)>>
            ELSE <<>>
    ELSE <<>>

RECURSIVE FlatMapGroups(_, _, _)
FlatMapGroups(dates, a, groups) ==
    IF groups = <<>> THEN <<>>
    ELSE GroupEvent(dates, a, Head(groups)) \o FlatMapGroups(dates, a, Tail(groups))

GroupConsecutiveExceedances(dates, a, exceedances) ==
    FlatMapGroups(dates, a, Groups(exceedances, 1, <<>>))

\* ------------------------------------------------------------------------
\* FloweringDetector._track_flowering_event
\* ------------------------------------------------------------------------

\* the first loop: the running maximum over the positions i..last, left at
\* the first value below 80% of the current peak
RECURSIVE FindPeak(_, _, _, _)
FindPeak(nums, i, last, peak_idx) ==
    IF i > last THEN peak_idx
    ELSE IF nums[i] > nums[peak_idx] THEN FindPeak(nums, i + 1, last, i)
    ELSE IF 10 * nums[i] < 8 * nums[peak_idx] THEN peak_idx
    ELSE FindPeak(nums, i + 1, last, peak_idx)

\* the second loop: the first position in i..last below 70% of the peak,
\* else the last position scanned (end_idx as it stands when none is)
RECURSIVE FindEnd(_, _, _, _, _)
FindEnd(nums, i, last, peak_idx, end_idx) ==
    IF i > last THEN end_idx
    ELSE IF 10 * nums[i] < 7 * nums[peak_idx] THEN i
    ELSE FindEnd(nums, i + 1, last, peak_idx, i)

Range(lo, hi) == [j \in 1..(hi - lo + 1) |-> lo + j - 1]

\* start_idx is 1-based here: Python's start_idx + 1.  None is <<>>, an
\* event is <<event>>.
TrackFloweringEvent(dates, a, start_idx) ==
    LET n == Len(a.num)
    IN IF start_idx >= n THEN <<>>
       ELSE
         LET peak_idx == FindPeak(a.num, start_idx + 1, Min2(n, start_idx + 9),
                                  start_idx)
             end_idx == FindEnd(a.num, peak_idx + 1, Min2(n, peak_idx + 14),
                                peak_idx, peak_idx)
             duration == dates[end_idx] - dates[start_idx]
         IN IF min_duration_days <= duration /\ duration <= max_duration_days
            THEN <<MakeEvent(dates, a, start_idx, end_idx, peak_idx,
                             Range(start_idx, end_idx))>>
            ELSE <<>>

\* ------------------------------------------------------------------------
\* FloweringDetector._detect_by_threshold
\* ------------------------------------------------------------------------

DetectByThreshold(dates, a) ==
    LET n == Len(a.num)
        threshold == ndvi_flowering_threshold
        baseline_window == Min2(n \div 3, 10)
        \* values - baseline > threshold, with baseline = bsum / bcnt
        Exceeds(i, bsum, bcnt) ==
            threshold.den * (bcnt * a.num[i] - bsum) > threshold.num * bcnt * a.den
        exceedances ==
            IF baseline_window < 2
            THEN [i \in 1..n |-> Exceeds(i, SumSeq(a.num), n)]
            ELSE [i \in 1..n |->
                    LET lo == WindowLo(i, baseline_window)
                        hi == WindowHi(i, baseline_window, n)
                    IN Exceeds(i, SumRange(a.num, lo, hi), hi - lo + 1)]
    IN GroupConsecutiveExceedances(dates, a, exceedances)

\* ------------------------------------------------------------------------
\* FloweringDetector._detect_by_change
\* ------------------------------------------------------------------------

\* np.diff
Diff(a) ==
    [num |-> Eager([i \in 1..(Len(a.num) - 1) |-> a.num[i + 1] - a.num[i]]),
     den |-> a.den]

\* diff_smooth > np.std(diff_smooth) * 1.5, elementwise.  With m = len and
\* Q = m^2 * var: x > 1.5 * sqrt(Q) / m  iff  x > 0 and 4 m^2 x^2 > 9 Q.
SignificantIncreases(diff_smooth) ==
    LET x == Normalised(diff_smooth.num)
        m == Len(x)
        q == NSquaredVar(x)
    IN Eager([i \in 1..m |-> x[i] > 0 /\ 4 * m * m * x[i] * x[i] > 9 * q])

\* the onsets: significant, and the previous index was not
EventStarts(significant_increases) ==
    LET m == Len(significant_increases)
        RECURSIVE Collect(_)
        Collect(i) ==
            IF i > m THEN <<>>
            ELSE (IF significant_increases[i]
                     /\ (i = 1 \/ ~significant_increases[i - 1])
                  THEN <<i>> ELSE <<>>) \o Collect(i + 1)
    IN Collect(1)

RECURSIVE TrackAll(_, _, _)
TrackAll(dates, a, event_starts) ==
    IF event_starts = <<>> THEN <<>>
    ELSE TrackFloweringEvent(dates, a, Head(event_starts))
           \o TrackAll(dates, a, Tail(event_starts))

\* a mutation of DetectByChange: series of fewer than 5 points are tracked too
DetectByChangeAnyLength(dates, a) ==
    IF Len(a.num) < 2 THEN <<>>
    ELSE LET diff == Diff(a)
             diff_smooth == SmoothTimeSeries(diff)
             significant_increases == SignificantIncreases(diff_smooth)
         IN TrackAll(dates, a, EventStarts(significant_increases))

\* FloweringDetector._detect_by_change
DetectByChange(dates, a) ==
    IF Len(a.num) < 5 THEN <<>>
    ELSE LET diff == Diff(a)
             diff_smooth == SmoothTimeSeries(diff)
             significant_increases == SignificantIncreases(diff_smooth)
         IN TrackAll(dates, a, EventStarts(significant_increases))

\* ------------------------------------------------------------------------
\* FloweringDetector._detect_seasonal_anomaly
\* ------------------------------------------------------------------------

\* a mutation of SignificantAnomaly: the mean and the standard deviation are
\* those of the whole series, not of the day of the year
SignificantAnomalyOfAll(dates, nums, i) ==
    LET members == 1..Len(nums)
        k == Cardinality(members)
        g == Gcd(GcdSeq(nums), 0)
        x == [j \in 1..Len(nums) |-> IF g <= 1 THEN nums[j] ELSE nums[j] \div g]
        RECURSIVE SumOver(_, _)
        SumOver(S, sq) ==
            IF S = {} THEN 0
            ELSE LET j == CHOOSE h \in S : TRUE
                 IN (IF sq THEN x[j] * x[j] ELSE x[j]) + SumOver(S \ {j}, sq)
        s1 == SumOver(members, FALSE)
        q == k * SumOver(members, TRUE) - s1 * s1
        d == k * x[i] - s1
        t == anomaly_threshold_sigma
    IN /\ k >= 2
       /\ q > 0
       /\ d > 0
       /\ (k - 1) * d * d > t * t * k * q

\* anomaly > anomaly_threshold_sigma for point i.  Its day-of-year group has
\* k values x with sum S; pandas' std is the sample one (ddof = 1), nan for
\* k = 1, and "std_val > 0" is then false: the anomaly is 0.  Otherwise
\* (x_i - S/k) / sqrt(Q / (k (k-1))) > t, Q = k*sum(x^2) - S^2, which is
\* k x_i - S > 0 and (k-1) (k x_i - S)^2 > t^2 k Q.
SignificantAnomaly(dates, nums, i) ==
    LET members == {j \in 1..Len(nums) : DayOfYear(dates[j]) = DayOfYear(dates[i])}
        k == Cardinality(members)
        g == Gcd(GcdSeq(nums), 0)
        x == [j \in 1..Len(nums) |-> IF g <= 1 THEN nums[j] ELSE nums[j] \div g]
        RECURSIVE SumOver(_, _)
        SumOver(S, sq) ==
            IF S = {} THEN 0
            ELSE LET j == CHOOSE h \in S : TRUE
                 IN (IF sq THEN x[j] * x[j] ELSE x[j]) + SumOver(S \ {j}, sq)
        s1 == SumOver(members, FALSE)
        q == k * SumOver(members, TRUE) - s1 * s1
        d == k * x[i] - s1
        t == anomaly_threshold_sigma
    IN /\ k >= 2
       /\ q > 0
       /\ d > 0
       /\ (k - 1) * d * d > t * t * k * q

DetectSeasonalAnomaly(dates, a) ==
    IF Len(a.num) < 10 THEN <<>>
    ELSE GroupConsecutiveExceedances(
             dates, a, [i \in 1..Len(a.num) |-> SignificantAnomaly(dates, a.num, i)])

\* ------------------------------------------------------------------------
\* FloweringDetector._detect_by_ml: features, StandardScaler, KMeans
\* ------------------------------------------------------------------------

SubSeqOf(nums, lo, hi) == Eager([j \in 1..(hi - lo + 1) |-> nums[lo + j - 1]])

\* The five columns of the feature matrix, each in a unit of its own (the
\* scaler removes the unit): the value, the mean, the standard deviation and
\* the range of the window values[max(0, i-2) : min(n, i+3)], and tm_yday.
\* A window holds 3, 4 or 5 values, so 60 times its mean is an integer; its
\* standard deviation is rounded down to 1/60 of a unit.
FeatureColumns(dates, nums) ==
    LET x == Normalised(nums)
        n == Len(x)
        Win(i) == SubSeqOf(x, Max2(1, i - 2), Min2(n, i + 2))
    IN <<[i \in 1..n |-> x[i]],
         [i \in 1..n |-> (60 * SumSeq(Win(i))) \div Len(Win(i))],
         [i \in 1..n |-> ISqrt((3600 * NSquaredVar(Win(i)))
                                   \div (Len(Win(i)) * Len(Win(i))))],
         [i \in 1..n |-> MaxSeq(Win(i)) - MinSeq(Win(i))],
         [i \in 1..n |-> DayOfYear(dates[i])]>>

\* StandardScaler.fit_transform on one column: (x - mean) / std in
\* hundredths, and 0 for a constant column (its scale is set to 1)
ScaledColumn(col) ==
    LET lo == MinSeq(col)
        c == Normalised(Eager([i \in 1..Len(col) |-> col[i] - lo]))
        n == Len(c)
        q == NSquaredVar(c)
    IN IF q = 0 THEN [i \in 1..n |-> 0]
       ELSE Eager([i \in 1..n |-> ((n * c[i] - SumSeq(c)) * 6400) \div SqrtScaled(q)])

\* features_scaled: one 5-vector per point
FeaturesScaled(dates, nums) ==
    LET cols == FeatureColumns(dates, nums)
        z == [c \in 1..5 |-> ScaledColumn(cols[c])]
    IN Eager([i \in 1..Len(nums) |-> [c \in 1..5 |-> z[c][i]]])

SqDist(u, v) ==
    (u[1] - v[1]) * (u[1] - v[1]) + (u[2] - v[2]) * (u[2] - v[2])
      + (u[3] - v[3]) * (u[3] - v[3]) + (u[4] - v[4]) * (u[4] - v[4])
      + (u[5] - v[5]) * (u[5] - v[5])

\* the label (0, 1 or 2) of the nearest centre, the lowest on a tie
Nearest(u, centers) ==
    LET d0 == SqDist(u, centers[1])
        d1 == SqDist(u, centers[2])
        d2 == SqDist(u, centers[3])
    IN IF d0 <= d1 /\ d0 <= d2 THEN 0 ELSE IF d1 <= d2 THEN 1 ELSE 2

\* the sum of column c over the points labelled l, from point i on
RECURSIVE SumLabelled(_, _, _, _, _)
SumLabelled(z, labels, l, c, i) ==
    IF i > Len(z) THEN 0
    ELSE (IF labels[i] = l THEN z[i][c] ELSE 0) + SumLabelled(z, labels, l, c, i + 1)

\* the mean of the points labelled l (the centre kept when there is none)
Centroid(z, labels, l, old) ==
    LET k == Cardinality({i \in 1..Len(z) : labels[i] = l})
    IN IF k = 0 THEN old
       ELSE [c \in 1..5 |-> SumLabelled(z, labels, l, c, 1) \div k]

\* Lloyd's iterations from the given centres, until the labels repeat
RECURSIVE Lloyd(_, _, _, _)
Lloyd(z, centers, previous, budget) ==
    LET labels == Eager([i \in 1..Len(z) |-> Nearest(z[i], centers)])
    IN IF labels = previous \/ budget = 0 THEN labels
       ELSE Lloyd(z, Eager([l \in 1..3 |-> Centroid(z, labels, l - 1, centers[l])]),
                  labels, budget - 1)

\* The seeds of one initialisation: three samples, in the order drawn, that
\* are distinct points when the data has three distinct points.  The draw
\* depends on the generator seeded by random_state and on n_init restarts;
\* every ordered triple is allowed here.
SeedTriples(z) ==
    LET n == Len(z)
        all == {t \in (1..n) \X (1..n) \X (1..n) :
                   t[1] # t[2] /\ t[1] # t[3] /\ t[2] # t[3]}
        apart == {t \in all :
                   z[t[1]] # z[t[2]] /\ z[t[1]] # z[t[3]] /\ z[t[2]] # z[t[3]]}
    IN IF apart # {} THEN apart ELSE all

\* KMeans(n_clusters=3).fit_predict from one seed triple
KMeansFitPredict(z, seeds) ==
    Lloyd(z, [l \in 1..3 |-> z[seeds[l]]], <<>>, 300)

\* max(cluster_means, key = mean)[0]: the non-empty cluster of highest mean
\* value, the lowest id among equals
FloweringCluster(nums, clusters) ==
    LET Members(l) == {i \in 1..Len(nums) : clusters[i] = l}
        RECURSIVE SumOf(_)
        SumOf(S) == IF S = {} THEN 0
                    ELSE LET i == CHOOSE h \in S : TRUE IN nums[i] + SumOf(S \ {i})
        ids == {l \in 0..2 : Members(l) # {}}
        \* mean(l) > mean(h)
        Higher(l, h) == SumOf(Members(l)) * Cardinality(Members(h))
                          > SumOf(Members(h)) * Cardinality(Members(l))
    IN CHOOSE l \in ids :
          /\ \A h \in ids : ~Higher(h, l)
          /\ \A h \in ids : h < l => Higher(l, h)

\* one run of _detect_by_ml, for the given clustering outcome
DetectByMlWith(dates, a, clusters) ==
    LET flowering_cluster == FloweringCluster(a.num, clusters)
        flowering_points ==
            Eager([i \in 1..Len(a.num) |-> clusters[i] = flowering_cluster])
    IN GroupConsecutiveExceedances(dates, a, flowering_points)

\* every result _detect_by_ml can return
DetectByMl(dates, a) ==
    IF Len(a.num) < 10 THEN {<<>>}
    ELSE LET z == FeaturesScaled(dates, a.num)
         IN {DetectByMlWith(dates, a, KMeansFitPredict(z, seeds)) :
               seeds \in SeedTriples(z)}

\* ------------------------------------------------------------------------
\* FloweringDetector._enrich_event and its helpers
\* ------------------------------------------------------------------------

\* a mutation of ClassifyEventType: an event of 10 days counts as brief
ClassifyEventTypeUpToTen(event) ==
    IF event.duration_days <= 10
    THEN (IF 10 * event.intensity.num > event.intensity.den
          THEN "brief_flowering" ELSE "vegetation_pulse")
    ELSE IF event.duration_days < 25 THEN "typical_flowering"
    ELSE "extended_flowering"

\* _classify_event_type; intensity > 0.1 is 10 * num > den
ClassifyEventType(event) ==
    IF event.duration_days < 10
    THEN (IF 10 * event.intensity.num > event.intensity.den
          THEN "brief_flowering" ELSE "vegetation_pulse")
    ELSE IF event.duration_days < 25 THEN "typical_flowering"
    ELSE "extended_flowering"

ConfidenceLevel(confidence) ==
    IF XLt(Fin(800), confidence) THEN "high"
    ELSE IF XLt(Fin(600), confidence) THEN "medium"
    ELSE "low"

\* '{:.2f}' of a coordinate given in ten-thousandths of a degree: hundredths
Format2f(x) == (x + 50) \div 100

\* _generate_event_description: the fields the text is made of
GenerateEventDescription(event) ==
    <<event.event_type, Format2f(event.location.latitude),
      Format2f(event.location.longitude), event.start_date, event.end_date,
      event.confidence_level>>

\* A result of _enrich_event: [exc, ret].  location['latitude'] raises
\* KeyError when the location lacks the key.
EnrichEvent(event, data) ==
    IF ~({"latitude", "longitude"} \subseteq data.location.keys)
    THEN [exc |-> "KeyError", ret |-> <<>>]
    ELSE
      LET typed == [start_date |-> event.start_date,
                    end_date |-> event.end_date,
                    peak_date |-> event.peak_date,
                    duration_days |-> event.duration_days,
                    peak_value |-> event.peak_value,
                    intensity |-> event.intensity,
                    confidence |-> event.confidence,
                    location |-> data.location,
                    data_source |-> IF "product_info" \in data.keys
                                    THEN data.product_info ELSE "{}",
                    event_type |-> ClassifyEventType(event),
                    confidence_level |-> ConfidenceLevel(event.confidence)]
      IN [exc |-> "none",
          ret |-> [f \in DOMAIN typed \cup {"description"} |->
                     IF f = "description" THEN GenerateEventDescription(typed)
                     ELSE typed[f]]]

\* the loop over events: the list of enriched events, or the first exception
RECURSIVE EnrichAll(_, _)
EnrichAll(events, data) ==
    IF events = <<>> THEN [exc |-> "none", ret |-> <<>>]
    ELSE LET first == EnrichEvent(Head(events), data)
             rest == EnrichAll(Tail(events), data)
         IN IF first.exc # "none" THEN first
            ELSE IF rest.exc # "none" THEN rest
            ELSE [exc |-> "none", ret |-> <<first.ret>> \o rest.ret]

\* ------------------------------------------------------------------------
\* FloweringDetector._validate_data and detect_events
\*
\* The argument is a record: mapping (is it a dict at all), keys (the keys
\* it holds), ts_keys (the keys of its 'time_series'), and the values of
\* those keys (meaningful only for the keys present).
\* ------------------------------------------------------------------------

\* [exc, ret]: "key in data" raises TypeError on an argument such as None
ValidateData(data) ==
    IF ~data.mapping THEN [exc |-> "TypeError", ret |-> FALSE]
    ELSE IF ~({"time_series", "location"} \subseteq data.keys)
    THEN [exc |-> "none", ret |-> FALSE]
    ELSE IF ~({"dates", "values"} \subseteq data.ts_keys)
    THEN [exc |-> "none", ret |-> FALSE]
    ELSE IF Len(data.dates) # Len(data.values)
    THEN [exc |-> "none", ret |-> FALSE]
    ELSE [exc |-> "none", ret |-> TRUE]

\* a mutation of ResolveAlgorithm: the fallback is another strategy
ResolveAlgorithmToThreshold(algorithm) ==
    IF algorithm \notin detection_algorithms THEN "threshold" ELSE algorithm

\* lines 76-78: an unregistered name is replaced by 'change_detection'
ResolveAlgorithm(algorithm) ==
    IF algorithm \notin detection_algorithms THEN "change_detection" ELSE algorithm

\* self.detection_algorithms[algorithm](dates, values): the set of results
\* the strategy can return (one, but for the clustering)
RunAlgorithm(name, dates, a) ==
    CASE name = "threshold" -> {DetectByThreshold(dates, a)}
      [] name = "change_detection" -> {DetectByChange(dates, a)}
      [] name = "seasonal_anomaly" -> {DetectSeasonalAnomaly(dates, a)}
      [] name = "machine_learning" -> DetectByMl(dates, a)

\* a mutation of GoodIndices: the quality flags are ignored
GoodIndicesAll(quality_flags) == Range(1, Len(quality_flags))

\* [i for i, flag in enumerate(quality_flags) if flag == 'good'], 1-based
GoodIndices(quality_flags) ==
    LET RECURSIVE Collect(_)
        Collect(i) ==
            IF i > Len(quality_flags) THEN <<>>
            ELSE (IF quality_flags[i] = "good" THEN <<i>> ELSE <<>>) \o Collect(i + 1)
    IN Collect(1)

\* the body of the try block of detect_events: the set of its outcomes
DetectEventsTry(data, algorithm) ==
    LET valid == ValidateData(data)
    IN IF valid.exc # "none" THEN {[exc |-> valid.exc, ret |-> <<>>]}
       ELSE IF ~valid.ret THEN {[exc |-> "none", ret |-> <<>>]}
       ELSE IF \E i \in 1..Len(data.dates) : ~ValidDateString(data.dates[i])
       THEN {[exc |-> "ValueError", ret |-> <<>>]}
       ELSE
         LET dates == Eager([i \in 1..Len(data.dates) |-> Strptime(data.dates[i])])
             quality_flags ==
                 IF "quality_flags" \in data.ts_keys THEN data.quality_flags
                 ELSE [i \in 1..Len(data.values) |-> "good"]
             good_indices == GoodIndices(quality_flags)
         IN IF Len(good_indices) < 3 THEN {[exc |-> "none", ret |-> <<>>]}
            ELSE IF \E j \in 1..Len(good_indices) : good_indices[j] > Len(data.values)
            THEN {[exc |-> "IndexError", ret |-> <<>>]}
            ELSE
              LET clean_dates ==
                      Eager([j \in 1..Len(good_indices) |-> dates[good_indices[j]]])
                  clean_values ==
                      [num |-> Eager([j \in 1..Len(good_indices) |->
                                        data.values[good_indices[j]]]),
                       den |-> 100]
                  smoothed_values == SmoothTimeSeries(clean_values)
                  name == ResolveAlgorithm(algorithm)
              IN {EnrichAll(events, data) :
                    events \in RunAlgorithm(name, clean_dates, smoothed_values)}

\* a mutation of Except: only KeyError is caught
ExceptKeyErrorOnly(outcome) ==
    IF outcome.exc = "KeyError" THEN [exc |-> "none", ret |-> <<>>] ELSE outcome

\* "except Exception: return []": every exception of the body is one
Except(outcome) ==
    IF outcome.exc # "none" THEN [exc |-> "none", ret |-> <<>>] ELSE outcome

\* detect_events: the set of its outcomes
DetectEvents(data, algorithm) ==
    {Except(outcome) : outcome \in DetectEventsTry(data, algorithm)}

\* ------------------------------------------------------------------------
\* The time-series cleaner (data_processor.py): dicts and float lists
\*
\* A dict is a function from its keys.  A list (or numpy array) of floats
\* is a record [num, den, nan]: element i is the rational num[i]/den, or
\* nan when i is in the set nan; the record is kept in lowest terms, so
\* that equal lists are equal records.
\* ------------------------------------------------------------------------

\* d[k] = v
DictSet(d, k, v) ==
    Eager([x \in (DOMAIN d) \cup {k} |-> IF x = k THEN v ELSE d[x]])

Lcm(a, b) == (a * b) \div Gcd(a, b)

RECURSIVE LcmSeq(_)
LcmSeq(s) == IF s = <<>> THEN 1 ELSE Lcm(Head(s), LcmSeq(Tail(s)))

RECURSIVE LcmUpTo(_)
LcmUpTo(n) == IF n <= 1 THEN 1 ELSE Lcm(n, LcmUpTo(n - 1))

\* the same list of floats, in lowest terms
Reduce(a) ==
    LET g == Gcd(a.den, GcdSeq(a.num))
    IN IF g <= 1 THEN a
       ELSE [num |-> Eager([i \in 1..Len(a.num) |-> a.num[i] \div g]),
             den |-> a.den \div g,
             nan |-> a.nan]

\* the list of the floats nums[i]/den
FloatList(nums, den) == Reduce([num |-> nums, den |-> den, nan |-> {}])

\* the increasing list of the indices i of 1..n with P[i]
RECURSIVE IndicesWhere(_, _)
IndicesWhere(P, i) ==
    IF i > Len(P) THEN <<>>
    ELSE (IF P[i] THEN <<i>> ELSE <<>>) \o IndicesWhere(P, i + 1)

Negation(mask) == Eager([i \in 1..Len(mask) |-> ~mask[i]])

\* ------------------------------------------------------------------------
\* DataProcessor._interpolate_missing_values
\* ------------------------------------------------------------------------

\* lines 103-111: the last valid index before invalid_idx and the first one
\* after it, 0 for None (valid_indices is increasing)
LeftNeighbor(valid_indices, invalid_idx) ==
    LET before == {j \in 1..Len(valid_indices) : valid_indices[j] < invalid_idx}
    IN IF before = {} THEN 0
       ELSE valid_indices[CHOOSE j \in before : \A k \in before : k <= j]

RightNeighbor(valid_indices, invalid_idx) ==
    LET after == {j \in 1..Len(valid_indices) : valid_indices[j] > invalid_idx}
    IN IF after = {} THEN 0
       ELSE valid_indices[CHOOSE j \in after : \A k \in after : j <= k]

\* the gaps right_neighbor - left_neighbor the weights of line 116 divide by
InterpolationGaps(valid_indices, invalid_indices) ==
    [j \in 1..Len(invalid_indices) |->
        LET l == LeftNeighbor(valid_indices, invalid_indices[j])
            r == RightNeighbor(valid_indices, invalid_indices[j])
        IN IF l # 0 /\ r # 0 THEN r - l ELSE 1]

\* lines 96-98, fewer than 2 valid points: np.nanmean(values[mask]), nan on
\* an empty or all-nan slice, replaces every invalid point
FillWithMean(values, mask, valid_indices) ==
    LET n == Len(values.num)
        lone == Len(valid_indices) = 1 /\ valid_indices[1] \notin values.nan
    IN [exc |-> "none",
        ret |-> Reduce(
           [num |-> Eager([i \in 1..n |->
                       IF mask[i] THEN values.num[i]
                       ELSE IF lone THEN values.num[valid_indices[1]]
                       ELSE 0]),
            den |-> values.den,
            nan |-> {i \in 1..n : IF mask[i] THEN i \in values.nan ELSE ~lone}])]

\* lines 113-124, for the invalid point i with neighbours l and r: the
\* numerator of the new value over values.den * scale
InterpolatedNum(values, i, l, r, scale) ==
    IF l # 0 /\ r # 0
    THEN (values.num[l] * (r - i) + values.num[r] * (i - l)) * (scale \div (r - l))
    ELSE IF l # 0 THEN values.num[l] * scale
    ELSE values.num[r] * scale

\* lines 100-127, 2 valid points or more: left and right give the neighbours
\* of each invalid index
InterpolateLinear(values, mask, invalid_indices, left, right, scale) ==
    LET n == Len(values.num)
        Position(i) == CHOOSE j \in 1..Len(invalid_indices) : invalid_indices[j] = i
        Replaced(i) == i <= Len(mask) /\ ~mask[i]
        IsNan(i) ==
            IF ~Replaced(i) THEN i \in values.nan
            ELSE \/ left[Position(i)] # 0 /\ left[Position(i)] \in values.nan
                 \/ right[Position(i)] # 0 /\ right[Position(i)] \in values.nan
        Num(i) ==
            IF ~Replaced(i) THEN values.num[i] * scale
            ELSE InterpolatedNum(values, i, left[Position(i)], right[Position(i)], scale)
    IN IF \E j \in 1..Len(invalid_indices) :
             invalid_indices[j] > n \/ left[j] > n \/ right[j] > n
       THEN [exc |-> "IndexError", ret |-> values]
       ELSE [exc |-> "none",
             ret |-> Reduce(
                [num |-> Eager([i \in 1..n |-> IF IsNan(i) THEN 0 ELSE Num(i)]),
                 den |-> values.den * scale,
                 nan |-> {i \in 1..n : IsNan(i)}])]

\* lines 93-129, valid_indices and invalid_indices being those of the mask
InterpolateBetween(values, mask, valid_indices, invalid_indices) ==
    IF Len(valid_indices) < 2
    THEN IF Len(mask) # Len(values.num)
         THEN [exc |-> "IndexError", ret |-> values]
         ELSE FillWithMean(values, mask, valid_indices)
    ELSE InterpolateLinear(
             values, mask, invalid_indices,
             Eager([j \in 1..Len(invalid_indices) |->
                      LeftNeighbor(valid_indices, invalid_indices[j])]),
             Eager([j \in 1..Len(invalid_indices) |->
                      RightNeighbor(valid_indices, invalid_indices[j])]),
             LcmSeq(InterpolationGaps(valid_indices, invalid_indices)))

\* DataProcessor._interpolate_missing_values, [exc, ret]: mask is a list of
\* booleans (1-based here).  A mask that does not have the length of values
\* makes numpy raise IndexError where it is used as an index (line 98) and
\* where an index beyond values is read or written (lines 117-124).
InterpolateMissingValues(values, mask) ==
    InterpolateBetween(values, mask,
                       IndicesWhere(mask, 1), IndicesWhere(Negation(mask), 1))

\* ------------------------------------------------------------------------
\* The filters.  A filter works on a store [data, ts, exc]: data is the
\* top-level dict it is given (the shallow copy process_time_series made),
\* ts is the nested dict data['time_series'], which is the caller's own
\* (dict.copy() copies the top level only), and exc is the exception that
\* ended the run, "none" so far.  The entry of data under 'time_series' is
\* not read: ts is that dict.
\* ------------------------------------------------------------------------

HasTimeSeries(s) == "time_series" \in DOMAIN s.data

Raise(s, exc) == [s EXCEPT !.exc = exc]

AllGood(n) == [i \in 1..n |-> "good"]

\* line 76: np.array([]) of an empty flag list is an array of floats, and
\* ~ of it raises TypeError
ShapeError(quality_flags) == Len(quality_flags) = 0

\* a mutation of StoreMasked: the flags are left as they are
StoreMaskedValuesOnly(s, interpolated_values, good_quality) ==
    IF interpolated_values.exc # "none" THEN Raise(s, interpolated_values.exc)
    ELSE [s EXCEPT !.ts = DictSet(s.ts, "values", interpolated_values.ret)]

\* lines 78-83: the interpolated values and the new flags are stored
StoreMasked(s, interpolated_values, good_quality) ==
    IF interpolated_values.exc # "none" THEN Raise(s, interpolated_values.exc)
    ELSE [s EXCEPT !.ts =
            DictSet(DictSet(s.ts, "values", interpolated_values.ret),
                    "quality_flags",
                    Eager([i \in 1..Len(good_quality) |->
                             IF good_quality[i] THEN "good" ELSE "interpolated"]))]

\* lines 76-83
MaskWhereNotGood(s, good_quality) ==
    IF \A i \in 1..Len(good_quality) : good_quality[i] THEN s
    ELSE StoreMasked(s, InterpolateMissingValues(s.ts["values"], good_quality),
                     good_quality)

\* lines 70-83
MaskByFlags(s, quality_flags) ==
    IF ShapeError(quality_flags) THEN Raise(s, "TypeError")
    ELSE MaskWhereNotGood(
             s, Eager([i \in 1..Len(quality_flags) |-> quality_flags[i] = "good"]))

\* DataProcessor._apply_cloud_mask
ApplyCloudMask(s) ==
    IF ~HasTimeSeries(s) THEN s
    ELSE IF "values" \notin DOMAIN s.ts THEN Raise(s, "KeyError")
    ELSE MaskByFlags(s, IF "quality_flags" \in DOMAIN s.ts THEN s.ts["quality_flags"]
                        ELSE AllGood(Len(s.ts["values"].num)))

\* ------------------------------------------------------------------------
\* DataProcessor._remove_outliers
\* ------------------------------------------------------------------------

RECURSIVE Insert(_, _)
Insert(x, s) ==
    IF s = <<>> THEN <<x>>
    ELSE IF x <= Head(s) THEN <<x>> \o s
    ELSE <<Head(s)>> \o Insert(x, Tail(s))

RECURSIVE Sorted(_)
Sorted(s) == IF s = <<>> THEN <<>> ELSE Insert(Head(s), Sorted(Tail(s)))

\* 4 * den * np.percentile(values, 25 * quarter), for a non-empty list
\* without nan: numpy interpolates linearly between the two order
\* statistics around the position quarter * (n - 1) / 4
Percentile4(nums, quarter) ==
    LET sorted == Sorted(nums)
        position4 == quarter * (Len(nums) - 1)
        lo == (position4 \div 4) + 1
        hi == Min2(lo + 1, Len(nums))
    IN 4 * sorted[lo] + (position4 % 4) * (sorted[hi] - sorted[lo])

\* 8 * den * (q25 - 1.5 * iqr), of the quartiles times 4 * den
Lower8(q25, q75) == 2 * q25 - 3 * (q75 - q25)

\* 8 * den * (q75 + 1.5 * iqr)
Upper8(q25, q75) == 2 * q75 + 3 * (q75 - q25)

\* 8 * den * lower_bound, lines 140-145
LowerBound8(nums) == Lower8(Percentile4(nums, 1), Percentile4(nums, 3))

\* 8 * den * upper_bound, lines 140-146
UpperBound8(nums) == Upper8(Percentile4(nums, 1), Percentile4(nums, 3))

\* line 149
OutsideBounds(values, lower_bound, upper_bound) ==
    Eager([i \in 1..Len(values.num) |->
              8 * values.num[i] < lower_bound \/ 8 * values.num[i] > upper_bound])

\* lines 140-149; with a nan among the values the percentiles are nan and
\* every comparison is false
IsOutlier(values) ==
    IF values.nan # {} \/ values.num = <<>>
    THEN [i \in 1..Len(values.num) |-> FALSE]
    ELSE OutsideBounds(values, LowerBound8(values.num), UpperBound8(values.num))

\* a mutation of MarkOutliers: the flags are left as they are
MarkNothing(quality_flags, is_outlier) == [exc |-> "none", ret |-> quality_flags]

\* lines 159-161, [exc, ret]: the flags are set in place, in index order,
\* until an outlier has no flag (IndexError)
MarkOutliers(quality_flags, is_outlier) ==
    LET beyond == {i \in 1..Len(is_outlier) : is_outlier[i] /\ i > Len(quality_flags)}
        stop == IF beyond = {} THEN Len(is_outlier) + 1
                ELSE CHOOSE i \in beyond : \A j \in beyond : i <= j
    IN [exc |-> IF beyond = {} THEN "none" ELSE "IndexError",
        ret |-> Eager([i \in 1..Len(quality_flags) |->
                          IF i < stop /\ i <= Len(is_outlier) /\ is_outlier[i]
                          THEN "outlier_corrected"
                          ELSE quality_flags[i]])]

\* what np.percentile does with an empty array depends on the numpy at
\* hand: it returns nan, or it raises IndexError
EmptyPercentile == {"nan", "IndexError"}

\* lines 155-162: the clean values are stored, then the flags; when the
\* marking fails, the list of the caller is already partly rewritten
StoreCorrected(s, clean_values, marked) ==
    IF clean_values.exc # "none" THEN Raise(s, clean_values.exc)
    ELSE [s EXCEPT !.ts = DictSet(DictSet(s.ts, "values", clean_values.ret),
                                  "quality_flags", marked.ret),
                   !.exc = marked.exc]

\* lines 151-164
CorrectOutliers(s, is_outlier) ==
    IF \A i \in 1..Len(is_outlier) : ~is_outlier[i] THEN s
    ELSE StoreCorrected(
             s,
             InterpolateMissingValues(s.ts["values"], Negation(is_outlier)),
             MarkOutliers(IF "quality_flags" \in DOMAIN s.ts THEN s.ts["quality_flags"]
                          ELSE AllGood(Len(s.ts["values"].num)),
                          is_outlier))

\* DataProcessor._remove_outliers, for one behaviour of np.percentile on an
\* empty array
RemoveOutliers(s, empty_percentile) ==
    IF ~HasTimeSeries(s) THEN s
    ELSE IF "values" \notin DOMAIN s.ts THEN Raise(s, "KeyError")
    ELSE IF s.ts["values"].num = <<>> /\ empty_percentile = "IndexError"
    THEN Raise(s, "IndexError")
    ELSE CorrectOutliers(s, IsOutlier(s.ts["values"]))

\* ------------------------------------------------------------------------
\* DataProcessor._apply_temporal_smoothing
\* ------------------------------------------------------------------------

\* pandas rolling(window=w, center=True, min_periods=1).mean(): the mean of
\* the values of the window that are not nan, nan when there is none
RollingNanMean(a, w) ==
    LET n == Len(a.num)
        scale == LcmUpTo(w)
        Window(i) == {j \in WindowLo(i, w)..WindowHi(i, w, n) : j \notin a.nan}
        Sum(i) == SumSeq([j \in 1..n |-> IF j \in Window(i) THEN a.num[j] ELSE 0])
    IN Reduce([num |-> Eager([i \in 1..n |->
                          IF Window(i) = {} THEN 0
                          ELSE (Sum(i) * scale) \div Cardinality(Window(i))]),
               den |-> a.den * scale,
               nan |-> {i \in 1..n : Window(i) = {}}])

\* a mutation of StoreSmoothed: the smoothed series replaces the values
SmoothInPlace(s, smoothed, window_size) ==
    [s EXCEPT !.ts = DictSet(s.ts, "values", smoothed)]

\* lines 185-189
StoreSmoothed(s, smoothed, window_size) ==
    [s EXCEPT !.ts =
        DictSet(DictSet(s.ts, "values_smoothed", smoothed),
                "smoothing_applied",
                [method |-> "moving_average", window_size |-> window_size])]

\* lines 177-189
SmoothOver(s, window_size) ==
    IF window_size < 3 THEN s
    ELSE StoreSmoothed(s, RollingNanMean(s.ts["values"], window_size), window_size)

\* DataProcessor._apply_temporal_smoothing
ApplyTemporalSmoothing(s) ==
    IF ~HasTimeSeries(s) THEN s
    ELSE IF "values" \notin DOMAIN s.ts THEN Raise(s, "KeyError")
    ELSE SmoothOver(s, Min2(5, Len(s.ts["values"].num) \div 2))

\* DataProcessor._aggregate_spatially
AggregateSpatially(s) == s

\* ------------------------------------------------------------------------
\* DataProcessor._calculate_vegetation_indices
\*
\* The derived lists have one denominator per element: an element is a
\* ratio [k, p, q], p/q in lowest terms with q > 0 when k is "fin", and the
\* nan or infinity numpy gives on a division by zero otherwise.
\* ------------------------------------------------------------------------

NanRatio == [k |-> "nan", p |-> 0, q |-> 1]

Ratio(p, q) ==
    IF q = 0
    THEN [k |-> IF p > 0 THEN "inf" ELSE IF p < 0 THEN "-inf" ELSE "nan",
          p |-> 0, q |-> 1]
    ELSE LET g == Gcd(p, q)
             sign == IF q < 0 THEN -1 ELSE 1
         IN [k |-> "fin", p |-> sign * (p \div g), q |-> sign * (q \div g)]

\* np.clip(x, -1, 1)
ClipRatio(x) ==
    CASE x.k = "nan" -> x
      [] x.k = "inf" -> Ratio(1, 1)
      [] x.k = "-inf" -> Ratio(-1, 1)
      [] x.p > x.q -> Ratio(1, 1)
      [] x.p < -x.q -> Ratio(-1, 1)
      [] OTHER -> x

\* the list of the f(num, den) of the elements, nan where the element is
Elementwise(values, f(_, _)) ==
    Eager([i \in 1..Len(values.num) |->
              IF i \in values.nan THEN NanRatio ELSE f(values.num[i], values.den)])

\* DataProcessor._approximate_evi_from_ndvi:
\* 2.5 v / (1 + 6 v - 7.5 v + 1) = 5 v / (4 - 3 v)
ApproximateEviFromNdvi(ndvi) ==
    LET Evi(a, d) == ClipRatio(Ratio(5 * a, 4 * d - 3 * a))
    IN Elementwise(ndvi, Evi)

\* line 215: v * (1 + L) / (v + L) with L = 0.5, that is 3 v / (2 v + 1)
SaviApproximated(values) ==
    LET Savi(a, d) == Ratio(3 * a, 2 * a + d)
    IN Elementwise(values, Savi)

\* line 219, for a non-empty list without nan, lowest and highest being
\* its extremes
GreennessBetween(values, lowest, highest) ==
    LET Greenness(a, d) == Ratio(a - lowest, highest - lowest)
    IN Elementwise(values, Greenness)

\* line 219, for a non-empty list
GreennessIndex(values) ==
    IF values.nan # {} THEN [i \in 1..Len(values.num) |-> NanRatio]
    ELSE GreennessBetween(values, MinSeq(values.num), MaxSeq(values.num))

\* 'NDVI' in units, for the units the data sources give
ContainsNDVI(units) == units \in {"NDVI"}

\* lines 210-220: two keys are written before np.min raises ValueError on
\* an empty array
StoreIndices(s, values) ==
    IF values.num = <<>>
    THEN [s EXCEPT !.ts = DictSet(DictSet(s.ts, "evi_approximated", <<>>),
                                  "savi_approximated", <<>>),
                   !.exc = "ValueError"]
    ELSE [s EXCEPT !.ts =
            DictSet(DictSet(DictSet(s.ts, "evi_approximated",
                                    ApproximateEviFromNdvi(values)),
                            "savi_approximated", SaviApproximated(values)),
                    "greenness_index", GreennessIndex(values))]

\* DataProcessor._calculate_vegetation_indices
CalculateVegetationIndices(s) ==
    IF ~HasTimeSeries(s) THEN s
    ELSE IF "values" \notin DOMAIN s.ts THEN Raise(s, "KeyError")
    ELSE IF ~ContainsNDVI(IF "units" \in DOMAIN s.ts THEN s.ts["units"] ELSE "")
    THEN s
    ELSE StoreIndices(s, s.ts["values"])

\* ------------------------------------------------------------------------
\* DataProcessor._add_quality_metrics
\* ------------------------------------------------------------------------

\* the largest magnitude kept in a list whose squares are summed
MaxMagnitude == 2000

\* the list with every element divided by factor
Shrunk(nums, factor) ==
    IF factor = 1 THEN nums ELSE Eager([i \in 1..Len(nums) |-> nums[i] \div factor])

Magnitude(nums) ==
    IF nums = <<>> THEN 0 ELSE Max2(Abs(MaxSeq(nums)), Abs(MinSeq(nums)))

CoarseOf(normalised) ==
    Shrunk(normalised, (Magnitude(normalised) \div MaxMagnitude) + 1)

\* the same list up to a positive factor and to a relative error of
\* 1/MaxMagnitude, with magnitudes that can be squared and summed: for the
\* ratios of two statistics of one list
Coarse(nums) == CoarseOf(Normalised(nums))

IsConstant(nums) == \A i \in 1..Len(nums) : nums[i] = nums[1]

\* line 261, diffs being the differences up to a positive factor
ConsistencyOf(diffs) ==
    IF \A i \in 1..Len(diffs) : diffs[i] = 0 THEN One
    ELSE ClipUnit(XSub(One, XSqrtDiv(NSquaredVar(diffs),
                                     SumSeq([i \in 1..Len(diffs) |-> Abs(diffs[i])]))))

\* DataProcessor._calculate_temporal_consistency, in thousandths; with a
\* nan among the values the mean is nan and is not > 0
CalculateTemporalConsistency(values) ==
    IF Len(values.num) < 3 THEN One
    ELSE IF values.nan # {} \/ IsConstant(values.num) THEN One
    ELSE ConsistencyOf(Coarse([i \in 1..(Len(values.num) - 1) |->
                                  values.num[i + 1] - values.num[i]]))

\* sqrt(q1) / sqrt(q2) in thousandths, q1 >= 0 and q2 > 0
XSqrtRatio(q1, q2) == Fin((SqrtScaled(q1) * 1000) \div Max2(1, SqrtScaled(q2)))

\* line 282: min(100.0, max(0.1, snr)), Python's min and max
LimitSnr(snr) == PyMin(Fin(100000), PyMax(Fin(100), snr))

\* lines 272-276, both being the signal followed by the noise
SnrOf(both, n) ==
    XSqrtRatio(NSquaredVar(SubSeq(both, 1, n)), NSquaredVar(SubSeq(both, n + 1, 2 * n)))

\* lines 271-278: signal is the rolling mean, over values.den * factor
SnrOfTrend(values, signal, factor) ==
    IF IsConstant([i \in 1..Len(values.num) |->
                      values.num[i] * factor - signal.num[i]])
    THEN PosInf
    ELSE SnrOf(Coarse([i \in 1..(2 * Len(values.num)) |->
                  IF i <= Len(values.num) THEN signal.num[i]
                  ELSE values.num[i - Len(values.num)] * factor
                           - signal.num[i - Len(values.num)]]),
               Len(values.num))

\* line 280, coarse being the values up to a positive factor
MeanOverStd(coarse) == XDivSqrt(SumSeq(coarse), NSquaredVar(coarse))

\* DataProcessor._calculate_snr, in thousandths
CalculateSnr(values) ==
    IF Len(values.num) < 3 THEN One
    ELSE IF Len(values.num) >= 5
    THEN IF values.nan # {} THEN LimitSnr(PosInf)
         ELSE LimitSnr(SnrOfTrend(values,
                                  RollingMean([num |-> values.num, den |-> values.den], 5),
                                  Factorial(5)))
    ELSE IF values.nan # {} \/ IsConstant(values.num) THEN LimitSnr(One)
    ELSE LimitSnr(MeanOverStd(Coarse(values.num)))

\* 'interpolated' in flag, 'outlier' in flag: substring tests, on the flags
\* the data sources and the filters write
FlagContains(flag, word) ==
    CASE word = "interpolated" -> flag \in {"interpolated"}
      [] word = "outlier" -> flag \in {"outlier_corrected"}

CountFlags(quality_flags, Test(_)) ==
    Cardinality({i \in 1..Len(quality_flags) : Test(quality_flags[i])})

IsGood(flag) == flag = "good"

IsInterpolated(flag) == FlagContains(flag, "interpolated")

IsOutlierFlag(flag) == FlagContains(flag, "outlier")

\* lines 241-249
QualityMetrics(values, quality_flags) ==
    [total_observations |-> Len(values.num),
     good_quality_count |-> CountFlags(quality_flags, IsGood),
     interpolated_count |-> CountFlags(quality_flags, IsInterpolated),
     outlier_corrected_count |-> CountFlags(quality_flags, IsOutlierFlag),
     data_completeness |->
         IF quality_flags # <<>>
         THEN Ratio(CountFlags(quality_flags, IsGood), Len(quality_flags))
         ELSE Ratio(1, 1),
     temporal_consistency |-> CalculateTemporalConsistency(values),
     signal_to_noise_ratio |-> CalculateSnr(values)]

\* DataProcessor._add_quality_metrics
AddQualityMetrics(s) ==
    IF ~HasTimeSeries(s) THEN s
    ELSE IF "values" \notin DOMAIN s.ts THEN Raise(s, "KeyError")
    ELSE [s EXCEPT !.data =
            DictSet(s.data, "quality_metrics",
                    QualityMetrics(s.ts["values"],
                                   IF "quality_flags" \in DOMAIN s.ts
                                   THEN s.ts["quality_flags"] ELSE <<>>))]

\* ------------------------------------------------------------------------
\* DataProcessor.__init__ and process_time_series
\* ------------------------------------------------------------------------

\* the keys of self.filters
filter_names ==
    {"cloud_mask", "outlier_removal", "temporal_smoothing", "spatial_aggregation"}

\* line 38
default_filters == <<"cloud_mask", "outlier_removal", "temporal_smoothing">>

\* self.filters[filter_name](processed_data)
ApplyFilter(filter_name, s, empty_percentile) ==
    CASE filter_name = "cloud_mask" -> ApplyCloudMask(s)
      [] filter_name = "outlier_removal" -> RemoveOutliers(s, empty_percentile)
      [] filter_name = "temporal_smoothing" -> ApplyTemporalSmoothing(s)
      [] filter_name = "spatial_aggregation" -> AggregateSpatially(s)

\* lines 43-48: the filters in the order of the list, the unknown names
\* skipped, up to the first exception
RECURSIVE ApplyFilters(_, _, _)
ApplyFilters(names, s, empty_percentile) ==
    IF names = <<>> \/ s.exc # "none" THEN s
    ELSE ApplyFilters(Tail(names),
                      IF Head(names) \in filter_names
                      THEN ApplyFilter(Head(names), s, empty_percentile)
                      ELSE s,
                      empty_percentile)

\* lines 51-54: the indices, then the metrics, unless an exception has ended
\* the run
Finish(filtered) ==
    IF filtered.exc # "none" THEN filtered
    ELSE AddQualityMetrics(CalculateVegetationIndices(filtered))

\* the store at the start of the filters: data is raw_data.copy()
StartOf(raw_data) ==
    [data |-> raw_data.dict,
     ts |-> IF "time_series" \in DOMAIN raw_data.dict
            THEN raw_data.dict["time_series"] ELSE <<>>,
     exc |-> "none"]

\* the body of the try block, for one behaviour of np.percentile on an
\* empty array: the store at the return or at the exception.  raw_data is
\* [mapping, dict]: whether the argument is a dict at all, and the dict;
\* filters is [none, list]: whether the argument is None, and the list.
ProcessTimeSeriesTry(raw_data, filters, empty_percentile) ==
    IF ~raw_data.mapping THEN Raise(StartOf(raw_data), "AttributeError")
    ELSE Finish(ApplyFilters(IF filters.none THEN default_filters ELSE filters.list,
                             StartOf(raw_data), empty_percentile))

\* lines 57 and 61, [failed, ret, ts]: ret is the dict returned, raw_data
\* itself when failed (the except branch), with the nested dict as it is
\* at the return.  ts is the nested dict of the caller's record after the
\* call: raw_data.copy() is shallow, the 'time_series' of the copy is the
\* caller's dict, and what the filters have written into it stays, also
\* when the run fails.
Outcome(raw_data, s) ==
    [failed |-> s.exc # "none",
     ret |-> IF raw_data.mapping /\ "time_series" \in DOMAIN raw_data.dict
             THEN DictSet(IF s.exc # "none" THEN raw_data.dict ELSE s.data,
                          "time_series", s.ts)
             ELSE raw_data.dict,
     ts |-> s.ts]

\* process_time_series: the set of its outcomes
ProcessTimeSeries(raw_data, filters) ==
    {Outcome(raw_data, ProcessTimeSeriesTry(raw_data, filters, empty_percentile)) :
        empty_percentile \in EmptyPercentile}

\* ------------------------------------------------------------------------
\* FloweringDetector.predict_flowering
\*
\* The argument is a record [falsy, mapping, keys, ts_keys, dates, values]:
\* whether it is None or an empty dict, whether it is a dict, its keys, the
\* keys of its 'time_series', and the two lists (meaningful only for the
\* keys present); the values are hundredths.  A float is a ratio [k, p, q].
\* ------------------------------------------------------------------------

\* np.mean of the values at the indices, nan (with a warning) when there is
\* none
MeanAt(values, indices) ==
    IF indices = {} THEN NanRatio
    ELSE Ratio(SumSeq([i \in 1..Len(values) |-> IF i \in indices THEN values[i] ELSE 0]),
               100 * Cardinality(indices))

\* the indices zip(dates, values) pairs
Zipped(dates, values) == 1..Min2(Len(dates), Len(values))

\* FloweringDetector._extract_seasonal_pattern: the dict from the days of
\* the year of the dates to the mean of their values
ExtractSeasonalPattern(dates, values) ==
    [day \in {DayOfYear(dates[i]) : i \in Zipped(dates, values)} |->
        MeanAt(values, {i \in Zipped(dates, values) : DayOfYear(dates[i]) = day})]

\* a > b * 1.15, false when one of them is nan
ExceedsTypical(a, b) ==
    /\ a.k = "fin"
    /\ b.k = "fin"
    /\ 100 * a.p * b.q > 115 * b.p * a.q

\* min(1.0, x): x when x < 1.0, and 1.0 otherwise (when x is nan as well)
MinWithOne(x) ==
    IF x.k = "-inf" \/ (x.k = "fin" /\ x.p < x.q) THEN x ELSE Ratio(1, 1)

\* (a - b) / b of two finite floats; numpy floats divide by zero to an
\* infinity or nan
RelativeExcess(a, b) == Ratio(a.p * b.q - b.p * a.q, b.p * a.q)

\* lines 522-525, typical_value being the one of line 519
ProbabilityAbove(predicted_value, typical_value) ==
    IF ExceedsTypical(predicted_value, typical_value)
    THEN MinWithOne(RelativeExcess(predicted_value, typical_value))
    ELSE Ratio(0, 1)

\* FloweringDetector._calculate_flowering_probability
CalculateFloweringProbability(predicted_value, seasonal_pattern, day_of_year) ==
    ProbabilityAbove(predicted_value,
                     IF day_of_year \in DOMAIN seasonal_pattern
                     THEN seasonal_pattern[day_of_year] ELSE Ratio(1, 2))

\* x + noise, the noise in thousandths
PlusNoise(x, noise) ==
    IF x.k # "fin" THEN x ELSE Ratio(1000 * x.p + noise * x.q, 1000 * x.q)

\* lines 483-488
MakePrediction(future_date, predicted_value, seasonal_pattern) ==
    [date |-> Strftime(future_date),
     predicted_ndvi |-> predicted_value,
     confidence |-> Ratio(7, 10),
     flowering_probability |->
         CalculateFloweringProbability(predicted_value, seasonal_pattern,
                                       DayOfYear(future_date))]

\* lines 476-488, for one future date and the noise drawn for it
PredictDay(future_date, values, seasonal_pattern, noise) ==
    MakePrediction(
        future_date,
        PlusNoise(IF DayOfYear(future_date) \in DOMAIN seasonal_pattern
                  THEN seasonal_pattern[DayOfYear(future_date)]
                  ELSE MeanAt(values, 1..Len(values)),
                  noise),
        seasonal_pattern)

\* a mutation of FutureDates: the dates start at the last one
FutureDatesFromLast(last_date, days_ahead) ==
    [i \in 1..Max2(0, days_ahead) |-> last_date + i - 1]

\* line 471
FutureDates(last_date, days_ahead) ==
    [i \in 1..Max2(0, days_ahead) |-> last_date + i]

\* np.random.normal(0, 0.0) is 0.0; otherwise the noise is the one drawn
NoiseOf(values, noise) == IF IsConstant(values) THEN 0 ELSE noise

\* lines 474-490, [exc, ret]
PredictAll(future_dates, values, seasonal_pattern, noise, empty_std) ==
    IF future_dates # <<>> /\ values = <<>> /\ empty_std = "ValueError"
    THEN [exc |-> "ValueError", ret |-> <<>>]
    ELSE [exc |-> "none",
          ret |-> [i \in 1..Len(future_dates) |->
                      PredictDay(future_dates[i], values, seasonal_pattern,
                                 NoiseOf(values, noise[i]))]]

\* lines 467-490, dates being the parsed ones
PredictFrom(dates, values, days_ahead, noise, empty_std) ==
    IF dates = <<>> THEN [exc |-> "ValueError", ret |-> <<>>]
    ELSE PredictAll(FutureDates(MaxSeq(dates), days_ahead), values,
                    ExtractSeasonalPattern(dates, values), noise, empty_std)

\* the standard deviation of an empty array is nan, and what
\* np.random.normal does with a nan scale depends on the numpy at hand: it
\* returns nan, or it raises ValueError
EmptyStd == {"nan", "ValueError"}

\* the body of the try block of predict_flowering, [exc, ret], for the
\* noise drawn for each future date (thousandths)
PredictFloweringTry(historical_data, days_ahead, noise, empty_std) ==
    IF historical_data.falsy THEN [exc |-> "none", ret |-> <<>>]
    ELSE IF ~historical_data.mapping THEN [exc |-> "TypeError", ret |-> <<>>]
    ELSE IF "time_series" \notin historical_data.keys
    THEN [exc |-> "none", ret |-> <<>>]
    ELSE IF "dates" \notin historical_data.ts_keys
    THEN [exc |-> "KeyError", ret |-> <<>>]
    ELSE IF \E i \in 1..Len(historical_data.dates) :
                ~ValidDateString(historical_data.dates[i])
    THEN [exc |-> "ValueError", ret |-> <<>>]
    ELSE IF "values" \notin historical_data.ts_keys
    THEN [exc |-> "KeyError", ret |-> <<>>]
    ELSE PredictFrom(Eager([i \in 1..Len(historical_data.dates) |->
                               Strptime(historical_data.dates[i])]),
                     historical_data.values, days_ahead, noise, empty_std)

\* a mutation of ExceptPrediction: nothing is caught
ExceptNothing(outcome) == outcome

\* lines 492-494
ExceptPrediction(outcome) ==
    IF outcome.exc # "none" THEN [exc |-> "none", ret |-> <<>>] ELSE outcome

\* predict_flowering, [exc, ret]
PredictFlowering(historical_data, days_ahead, noise, empty_std) ==
    ExceptPrediction(PredictFloweringTry(historical_data, days_ahead, noise, empty_std))

\* ------------------------------------------------------------------------
\* DataProcessor.calculate_phenology_metrics
\*
\* The argument is a record [mapping, keys, ts_keys, dates, values], the
\* values in hundredths.  An index is 1-based, 0 standing for None.
\* ------------------------------------------------------------------------

\* lines 328-335, min_val and max_val being the extremes of the values:
\* the first i + 1 with values[i] < threshold <= values[i + 1], the
\* threshold being min_val + 0.2 * (max_val - min_val)
SeasonStartAbove(vals, min_val, max_val) ==
    LET rising == {i \in 1..(Len(vals) - 2) :
                      /\ 5 * vals[i] < 5 * min_val + (max_val - min_val)
                      /\ 5 * vals[i + 1] >= 5 * min_val + (max_val - min_val)}
    IN IF rising = {} THEN 0
       ELSE (CHOOSE i \in rising : \A j \in rising : i <= j) + 1

\* DataProcessor._find_season_start
FindSeasonStart(vals) ==
    IF Len(vals) < 5 THEN 0 ELSE SeasonStartAbove(vals, MinSeq(vals), MaxSeq(vals))

\* np.argmax of a non-empty array: the first index of its maximum
ArgMax(vals) == CHOOSE i \in 1..Len(vals) : \A j \in 1..Len(vals) :
                    vals[j] <= vals[i] /\ (j < i => vals[j] < vals[i])

\* DataProcessor._find_season_end: the first index after the peak whose
\* value is at most half the peak value, the last index when there is none
FindSeasonEnd(vals, peak_idx) ==
    IF peak_idx >= Len(vals) THEN 0
    ELSE LET below == {i \in (peak_idx + 1)..Len(vals) : 2 * vals[i] <= vals[peak_idx]}
         IN IF below = {} THEN Len(vals)
            ELSE CHOOSE i \in below : \A j \in below : i <= j

\* np.trapz(values), as a float
Trapz(vals) ==
    Ratio(SumSeq([i \in 1..(Len(vals) - 1) |-> vals[i] + vals[i + 1]]), 200)

\* lines 297-298, 307-308 and 311-312: the keys of a start and an end found
WithSeason(metrics, dates, sos_idx, eos_idx) ==
    [key \in (DOMAIN metrics)
                \cup (IF sos_idx # 0 THEN {"start_of_season"} ELSE {})
                \cup (IF eos_idx # 0 THEN {"end_of_season"} ELSE {})
                \cup (IF sos_idx # 0 /\ eos_idx # 0 THEN {"season_length_days"} ELSE {}) |->
        CASE key = "start_of_season" -> Strftime(dates[sos_idx])
          [] key = "end_of_season" -> Strftime(dates[eos_idx])
          [] key = "season_length_days" -> dates[eos_idx] - dates[sos_idx]
          [] OTHER -> metrics[key]]

\* lines 302-318, [exc, ret]: an index beyond the dates raises IndexError
MetricsWith(dates, vals, sos_idx, pos_idx, eos_idx) ==
    IF sos_idx > Len(dates) \/ pos_idx > Len(dates) \/ eos_idx > Len(dates)
    THEN [exc |-> "IndexError", ret |-> <<>>]
    ELSE [exc |-> "none",
          ret |-> WithSeason([peak_of_season |-> Strftime(dates[pos_idx]),
                              peak_value |-> Ratio(vals[pos_idx], 100),
                              integrated_ndvi |-> Trapz(vals),
                              seasonal_amplitude |->
                                  Ratio(MaxSeq(vals) - MinSeq(vals), 100)],
                             dates, sos_idx, eos_idx)]

\* lines 301-306
MetricsAround(dates, vals, pos_idx) ==
    MetricsWith(dates, vals, FindSeasonStart(vals), pos_idx, FindSeasonEnd(vals, pos_idx))

\* lines 293-320, dates being the parsed ones: np.argmax raises ValueError
\* on an empty array
MetricsOf(dates, vals) ==
    IF vals = <<>> THEN [exc |-> "ValueError", ret |-> <<>>]
    ELSE MetricsAround(dates, vals, ArgMax(vals))

\* calculate_phenology_metrics, [exc, ret]: exc is the exception that
\* reaches the caller (the method has no handler), "none" when it returns
CalculatePhenologyMetrics(data) ==
    IF ~data.mapping THEN [exc |-> "TypeError", ret |-> <<>>]
    ELSE IF "time_series" \notin data.keys THEN [exc |-> "none", ret |-> <<>>]
    ELSE IF "dates" \notin data.ts_keys THEN [exc |-> "KeyError", ret |-> <<>>]
    ELSE IF \E i \in 1..Len(data.dates) : ~ValidDateString(data.dates[i])
    THEN [exc |-> "ValueError", ret |-> <<>>]
    ELSE IF "values" \notin data.ts_keys THEN [exc |-> "KeyError", ret |-> <<>>]
    ELSE MetricsOf(Eager([i \in 1..Len(data.dates) |-> Strptime(data.dates[i])]),
                   data.values)

\* ------------------------------------------------------------------------
\* CacheManager (cache_manager.py)
\*
\* The cache directory is a function from the paths of the files it holds
\* to their content.  A path is <<directory, file name>>; a content is
\* [ok, data, expires_at]: whether pickle.load can read the file, the
\* 'data' and the 'expires_at' of the dict it holds.  The clock counts
\* hours.  An optional argument is a record [none, ...].
\* ------------------------------------------------------------------------

\* line 20, without CACHE_EXPIRY_HOURS in the environment
default_expiry_hours == 24

\* lines 26-31: the directory of each data type, under cache_dir
subdirs ==
    [satellite_data |-> "satellite", processed_data |-> "processed",
     predictions |-> "predictions", events |-> "events"]

cache_dir == "."

\* hashlib.md5(key.encode()).hexdigest() + '.cache': one name per key
CacheFileName(key) == <<"md5", key, ".cache">>

\* CacheManager._get_cache_file_path
GetCacheFilePath(key, data_type) ==
    <<IF data_type \in DOMAIN subdirs THEN subdirs[data_type] ELSE cache_dir,
      CacheFileName(key)>>

\* the directory without the files at the paths
Without(files, paths) == [p \in (DOMAIN files) \ paths |-> files[p]]

\* CacheManager._is_expired, of a file that exists: a file that cannot be
\* read counts as expired
IsExpired(files, file_path, now) ==
    IF ~files[file_path].ok THEN TRUE ELSE now > files[file_path].expires_at

None == [found |-> FALSE, data |-> ""]

\* lines 61-74, [files, ret]
GetAt(files, cache_file, now) ==
    IF cache_file \notin DOMAIN files THEN [files |-> files, ret |-> None]
    ELSE IF IsExpired(files, cache_file, now)
    THEN [files |-> Without(files, {cache_file}), ret |-> None]
    ELSE [files |-> files, ret |-> [found |-> TRUE, data |-> files[cache_file].data]]

\* CacheManager.get
Get(files, key, data_type, now) ==
    GetAt(files, GetCacheFilePath(key, data_type), now)

\* expiry_hours or self.default_expiry_hours: None and 0 are falsy
ExpiryOr(expiry_hours) ==
    IF expiry_hours.none \/ expiry_hours.hours = 0 THEN default_expiry_hours
    ELSE expiry_hours.hours

\* lines 98-110, [files, ret].  data is [picklable, value]: open(.., 'wb')
\* empties the file before pickle.dump raises on a value it cannot pickle
SetAt(files, cache_file, data, hours, now) ==
    IF ~data.picklable
    THEN [files |-> DictSet(files, cache_file,
                            [ok |-> FALSE, data |-> "", expires_at |-> 0]),
          ret |-> FALSE]
    ELSE [files |-> DictSet(files, cache_file,
                            [ok |-> TRUE, data |-> data.value,
                             expires_at |-> now + hours]),
          ret |-> TRUE]

\* CacheManager.set
Set(files, key, data, data_type, expiry_hours, now) ==
    SetAt(files, GetCacheFilePath(key, data_type), data, ExpiryOr(expiry_hours), now)

\* lines 120-124
DeleteAt(files, cache_file) ==
    IF cache_file \in DOMAIN files
    THEN [files |-> Without(files, {cache_file}), ret |-> TRUE]
    ELSE [files |-> files, ret |-> FALSE]

\* CacheManager.delete
Delete(files, key, data_type) == DeleteAt(files, GetCacheFilePath(key, data_type))

\* the files of the directories
FilesIn(files, directories) == {p \in DOMAIN files : p[1] \in directories}

\* lines 145-149 and 154-158: the files are removed and counted
RemoveAll(files, paths) ==
    [files |-> Without(files, paths), ret |-> Cardinality(paths)]

\* lines 142-152: the directory of a data type that has one, the four
\* subdirectories otherwise
ClearedDirectories(data_type) ==
    IF ~data_type.none /\ data_type.name \in DOMAIN subdirs
    THEN {subdirs[data_type.name]}
    ELSE {subdirs[t] : t \in DOMAIN subdirs}

\* CacheManager.clear
Clear(files, data_type) ==
    RemoveAll(files, FilesIn(files, ClearedDirectories(data_type)))

\* CacheManager.cleanup_expired
CleanupExpired(files, now) ==
    RemoveAll(files, {p \in FilesIn(files, {subdirs[t] : t \in DOMAIN subdirs}) :
                         IsExpired(files, p, now)})

\* lines 285-302: a file that cannot be read raises, and False is returned
UpdateExpiryAt(files, cache_file, hours, now) ==
    IF cache_file \notin DOMAIN files \/ ~files[cache_file].ok
    THEN [files |-> files, ret |-> FALSE]
    ELSE [files |-> [files EXCEPT ![cache_file].expires_at = now + hours],
          ret |-> TRUE]

\* CacheManager.update_expiry
UpdateExpiry(files, key, data_type, new_expiry_hours, now) ==
    UpdateExpiryAt(files, GetCacheFilePath(key, data_type),
                   ExpiryOr(new_expiry_hours), now)

\* CacheManager.exists
Exists(files, key, data_type, now) ==
    /\ GetCacheFilePath(key, data_type) \in DOMAIN files
    /\ ~IsExpired(files, GetCacheFilePath(key, data_type), now)

\* ------------------------------------------------------------------------
\* The state machine.  One call per behaviour: the initial state holds the
\* arguments of a call (pc = "call"), the step runs the whole operation and
\* stores what it returns (pc = "done").
\* ------------------------------------------------------------------------

VARIABLES
    pc,              \* "call" or "done" ("processed" between the two calls of the pipeline)
    satellite_data,  \* detect_events: its first argument
    algorithm,       \* detect_events: its second argument
    events,          \* detect_events: its outcome [exc, ret]
    event_indices,   \* _calculate_confidence: its first argument
    values,          \* _calculate_confidence: its second argument
    confidence,      \* _calculate_confidence: what it returns
    raw_data,        \* process_time_series: its first argument, as given
    filters,         \* process_time_series: its second argument
    time_series,     \* the nested dict raw_data['time_series'], as it is now
    processed_data,  \* process_time_series: its outcome
    historical_data, \* predict_flowering: its first argument
    days_ahead,      \* predict_flowering: its second argument
    predictions,     \* predict_flowering: its outcome [exc, ret]
    phenology_data,  \* calculate_phenology_metrics: its argument
    metrics,         \* calculate_phenology_metrics: its outcome [exc, ret]
    cache_files,     \* CacheManager: the files of the cache directory
    clock,           \* the hours that have passed (datetime.utcnow())
    cache_result,    \* CacheManager: the last call and what it returned
    last_set,        \* the last successful set of each key, while nothing has touched it
    steps,           \* the number of calls made and of times the clock advanced
    run_dates,       \* _group_consecutive_exceedances: its argument dates
    run_values,      \* _group_consecutive_exceedances: its argument values
    run_mask,        \* _group_consecutive_exceedances: its argument exceedances
    run_events,      \* _group_consecutive_exceedances: what it returns
    track_dates,     \* _detect_by_change: its argument dates
    track_values,    \* _detect_by_change: its argument values
    track_events,    \* _detect_by_change: what it returns
    twin_raw,        \* two raw records that differ at points not flagged good
    twin_data,       \* the two records, as given or as process_time_series returned them
    twin_algorithm,  \* the algorithm name given to both calls of detect_events
    twin_events      \* the results of detect_events on the two records

vars ==
    <<pc, satellite_data, algorithm, events, event_indices, values, confidence,
      raw_data, filters, time_series, processed_data,
      historical_data, days_ahead, predictions,
      phenology_data, metrics,
      cache_files, clock, cache_result, last_set, steps,
      run_dates, run_values, run_mask, run_events,
      track_dates, track_values, track_events,
      twin_raw, twin_data, twin_algorithm, twin_events>>

detector_vars == <<satellite_data, algorithm, events>>

confidence_vars == <<event_indices, values, confidence>>

cleaner_vars == <<raw_data, filters, time_series, processed_data>>

predictor_vars == <<historical_data, days_ahead, predictions>>

phenology_vars == <<phenology_data, metrics>>

cache_vars == <<cache_files, clock, cache_result, last_set, steps>>

grouping_vars == <<run_dates, run_values, run_mask, run_events>>

tracking_vars == <<track_dates, track_values, track_events>>

twin_vars == <<twin_raw, twin_data, twin_algorithm, twin_events>>

\* the value of a variable the specification at hand does not use
Unused == "unused"

PredictorUnused ==
    /\ historical_data = Unused
    /\ days_ahead = Unused
    /\ predictions = Unused

GroupingUnused ==
    /\ run_dates = Unused
    /\ run_values = Unused
    /\ run_mask = Unused
    /\ run_events = Unused

TrackingUnused ==
    /\ track_dates = Unused
    /\ track_values = Unused
    /\ track_events = Unused


TwinUnused ==
    /\ twin_raw = Unused
    /\ twin_data = Unused
    /\ twin_algorithm = Unused
    /\ twin_events = Unused

CacheUnused ==
    /\ cache_files = Unused
    /\ clock = Unused
    /\ cache_result = Unused
    /\ last_set = Unused
    /\ steps = Unused


PhenologyUnused ==
    /\ phenology_data = Unused
    /\ metrics = Unused

\* ------------------------------------------------------------------------
\* The inputs of detect_events
\* ------------------------------------------------------------------------

\* the longest of the exhaustively enumerated series
MaxLen == 6

\* the names given as algorithm: the registered ones, the name the design
\* gives the clustering strategy (not a registered one) and another
AlgorithmNames == detection_algorithms \cup {"clustering", "unknown"}

FirstDay == Strptime(<<2024, 1, 1>>)

\* n date strings, step days apart
RegularDates(step, n) == [i \in 1..n |-> Strftime(FirstDay + step * (i - 1))]

\* test_system.py, test_flowering_detector
TestDates ==
    <<<<2024, 1, 1>>, <<2024, 1, 15>>, <<2024, 2, 1>>, <<2024, 2, 15>>, <<2024, 3, 1>>>>

TestValues == <<30, 35, 40, 55, 45>>

GoodLocation ==
    [keys |-> {"latitude", "longitude"}, latitude |-> 407128, longitude |-> -740060]

NoLatitude == [keys |-> {"longitude"}, latitude |-> 0, longitude |-> -740060]

Record(dates, vals, flagged, flags, location) ==
    [mapping |-> TRUE,
     keys |-> {"time_series", "location", "product_info"},
     ts_keys |-> {"dates", "values"} \cup (IF flagged THEN {"quality_flags"} ELSE {}),
     dates |-> dates,
     values |-> vals,
     quality_flags |-> flags,
     location |-> location,
     product_info |-> "test"]

\* the quality flags tried with a series of n points: none given, all good,
\* one point not good, only the first two good, one flag too many, one too few
FlagVariants(n) ==
    {[flagged |-> FALSE, flags |-> <<>>],
     [flagged |-> TRUE, flags |-> [i \in 1..n |-> "good"]],
     [flagged |-> TRUE, flags |-> [i \in 1..n |-> IF i = 2 THEN "cloudy" ELSE "good"]],
     [flagged |-> TRUE,
      flags |-> [i \in 1..n |-> IF i <= 2 THEN "good"
                                ELSE IF i = 3 THEN "interpolated" ELSE "cloudy"]],
     [flagged |-> TRUE, flags |-> [i \in 1..(n + 1) |-> "good"]],
     [flagged |-> TRUE, flags |-> [i \in 1..Max2(0, n - 1) |-> "good"]]}

\* every series of n points over two values, 10 or 16 days apart
ShortData(n) ==
    {Record(RegularDates(step, n), vals, fv.flagged, fv.flags, GoodLocation) :
        vals \in [1..n -> {10, 90}], step \in {10, 16}, fv \in FlagVariants(n)}

\* a series of 10 points: base everywhere but high on width points from at
Bump(base, high, at, width) ==
    [i \in 1..10 |-> IF at <= i /\ i < at + width THEN high ELSE base]

LongValues ==
    {Bump(c, c, 1, 0) : c \in {10, 50, 90}}
        \cup {Bump(10, 90, at, width) : at \in {2, 5, 8}, width \in {2, 3}}

\* series of 10 points (what the seasonal and the clustering strategies ask
\* for), 10 or 61 days apart: 61-day steps from 1 January 2024 come back to
\* the same day of the year after 6 steps
LongData ==
    {Record(RegularDates(step, 10), vals, TRUE, flags, GoodLocation) :
        vals \in LongValues, step \in {10, 61},
        flags \in {[i \in 1..10 |-> "good"],
                   [i \in 1..10 |-> IF i = 5 THEN "cloudy" ELSE "good"]}}

\* the record of the repository's test
TestData ==
    {Record(TestDates, TestValues, TRUE, [i \in 1..5 |-> "good"], GoodLocation),
     Record(RegularDates(16, 5), TestValues, TRUE, [i \in 1..5 |-> "good"], GoodLocation)}

\* a well-formed record on which the threshold strategy finds an event
EventfulData ==
    Record(RegularDates(10, 5), <<10, 10, 90, 90, 90>>, TRUE,
           [i \in 1..5 |-> "good"], GoodLocation)

\* the malformed arguments: not a mapping, a required key missing, dates and
\* values of different lengths, an impossible date, a location without latitude
MalformedData ==
    {[EventfulData EXCEPT !.mapping = FALSE],
     [EventfulData EXCEPT !.keys = {"location", "product_info"}],
     [EventfulData EXCEPT !.keys = {"time_series", "product_info"}],
     [EventfulData EXCEPT !.ts_keys = {"values", "quality_flags"}],
     [EventfulData EXCEPT !.ts_keys = {"dates", "quality_flags"}],
     [EventfulData EXCEPT !.dates = RegularDates(10, 4)],
     [EventfulData EXCEPT !.dates[2] = <<2024, 2, 30>>],
     [EventfulData EXCEPT !.location = NoLatitude]}

\* series of 5 points whose dates are not in order (nothing in detect_events
\* sorts or checks them)
UnsortedDates ==
    [i \in 1..5 |-> Strftime(FirstDay + <<0, 10, 40, 20, 30>>[i])]

UnsortedData ==
    {Record(UnsortedDates, vals, TRUE, [i \in 1..5 |-> "good"], GoodLocation) :
        vals \in [1..5 -> {10, 90}]}

\* 18 points, on 1, 11 and 21 January of 2020 to 2025, flat but for the last
\* two: the only way to a seasonal anomaly above 2 sigma, which takes 6
\* observations of one day of the year
SeasonalDates ==
    [i \in 1..18 |-> <<2020 + ((i - 1) \div 3), 1, 1 + 10 * ((i - 1) % 3)>>]

SeasonalData ==
    {Record(SeasonalDates, [i \in 1..18 |-> IF i >= at THEN 90 ELSE 10], TRUE,
            [i \in 1..18 |-> "good"], GoodLocation) : at \in {17, 19}}

\* series of 6 points 3 days apart, over two close values or two distant
\* ones: the events found in them last less than 10 days
BriefData ==
    {Record(RegularDates(3, 6), vals, TRUE, [i \in 1..6 |-> "good"], GoodLocation) :
        vals \in [1..6 -> {30, 38}] \cup [1..6 -> {10, 90}]}

\* series of 7 points 10 days apart that start with a fall: long enough for
\* two onsets of change_detection
DippingData ==
    {Record(RegularDates(10, 7), vals, TRUE, [i \in 1..7 |-> "good"], GoodLocation) :
        vals \in {v \in [1..7 -> {10, 90}] : v[1] = 90 /\ v[2] = 10}}

\* 18 points 10 days apart, all within 2024, low but for a plateau of 2 or 3
\* points: no day of the year comes twice
WithinYearData ==
    {Record(RegularDates(10, 18),
            [i \in 1..18 |-> IF at <= i /\ i < at + width THEN 90 ELSE 10], TRUE,
            [i \in 1..18 |-> "good"], GoodLocation) :
        at \in {2, 8, 16}, width \in {2, 3}}

\* the series that are not enumerated by length
DetectorData ==
    LongData \cup TestData \cup MalformedData \cup UnsortedData \cup BriefData
        \cup DippingData

\* ------------------------------------------------------------------------
\* Specification of the detector: one call of detect_events
\* ------------------------------------------------------------------------

InitDetector ==
    /\ pc = "call"
    /\ \/ /\ \/ \E n \in 0..MaxLen : satellite_data \in ShortData(n)
             \/ satellite_data \in DetectorData
          /\ algorithm \in AlgorithmNames
       \/ /\ satellite_data \in SeasonalData \cup WithinYearData
          /\ algorithm \in AlgorithmNames \ {"machine_learning"}
    /\ events = Unused
    /\ event_indices = Unused
    /\ values = Unused
    /\ confidence = Unused
    /\ raw_data = Unused
    /\ filters = Unused
    /\ time_series = Unused
    /\ processed_data = Unused
    /\ PredictorUnused
    /\ PhenologyUnused
    /\ CacheUnused
    /\ GroupingUnused
    /\ TrackingUnused
    /\ TwinUnused

CallDetectEvents ==
    /\ pc = "call"
    /\ events' \in DetectEvents(satellite_data, algorithm)
    /\ pc' = "done"
    /\ UNCHANGED <<satellite_data, algorithm, confidence_vars, cleaner_vars,
                   predictor_vars, phenology_vars,
                   cache_vars,
                   grouping_vars,
                   tracking_vars,
                   twin_vars>>

NextDetector == CallDetectEvents

SpecDetector == InitDetector /\ [][NextDetector]_vars

\* ------------------------------------------------------------------------
\* Properties of detect_events
\* ------------------------------------------------------------------------

Returned == pc = "done"

\* the series is complete enough to be read: both required sequences present
HasSeries(data) ==
    /\ data.mapping
    /\ "time_series" \in data.keys
    /\ {"dates", "values"} \subseteq data.ts_keys

\* the number of points of the series flagged 'good'; a series given without
\* quality flags counts as all good, as detect_events takes it
GoodPointCount(data) ==
    IF "quality_flags" \in data.ts_keys
    THEN Cardinality({i \in 1..Len(data.values) :
                        i <= Len(data.quality_flags) /\ data.quality_flags[i] = "good"})
    ELSE Len(data.values)

\* C1: whatever the record and the algorithm name, a series with fewer than 3
\* points flagged 'good' makes detect_events return the empty list.
C1_FewGoodPointsNoEvents ==
    (Returned /\ HasSeries(satellite_data) /\ GoodPointCount(satellite_data) < 3)
        => (events.exc = "none" /\ events.ret = <<>>)

\* C1 witness: a returned call on a series of at least 5 points of which only
\* 2 are good, whose values do hold a plateau
C1_Witness ==
    /\ Returned
    /\ HasSeries(satellite_data)
    /\ satellite_data.values = <<10, 10, 90, 90, 90>>
    /\ GoodPointCount(satellite_data) = 2
    /\ algorithm = "threshold"
    /\ events.ret = <<>>

StrictlyIncreasingDates(data) ==
    \A i \in 1..(Len(data.dates) - 1) :
        /\ ValidDateString(data.dates[i])
        /\ ValidDateString(data.dates[i + 1])
        /\ Strptime(data.dates[i]) < Strptime(data.dates[i + 1])

EventWithinBounds(e) ==
    /\ Strptime(e.start_date) <= Strptime(e.peak_date)
    /\ Strptime(e.peak_date) <= Strptime(e.end_date)
    /\ e.duration_days = Strptime(e.end_date) - Strptime(e.start_date)
    /\ min_duration_days <= e.duration_days
    /\ e.duration_days <= max_duration_days

\* C2: on a series of strictly increasing dates, every returned event has
\* start_date <= peak_date <= end_date and a duration_days, the days from
\* start_date to end_date, between min_duration_days and max_duration_days.
C2_EventDatesOrderedAndBounded ==
    (Returned /\ HasSeries(satellite_data) /\ StrictlyIncreasingDates(satellite_data))
        => \A j \in 1..Len(events.ret) : EventWithinBounds(events.ret[j])

\* C2 witness: an event whose peak lies strictly inside it
C2_Witness ==
    /\ Returned
    /\ HasSeries(satellite_data)
    /\ StrictlyIncreasingDates(satellite_data)
    /\ \E j \in 1..Len(events.ret) :
          /\ Strptime(events.ret[j].start_date) < Strptime(events.ret[j].peak_date)
          /\ Strptime(events.ret[j].peak_date) < Strptime(events.ret[j].end_date)

\* C4: detect_events never raises, whatever it is given, and returns the
\* empty list when a required key is missing or dates and values differ in
\* length.
C4_NeverRaises ==
    Returned =>
        /\ events.exc = "none"
        /\ (~HasSeries(satellite_data)
              \/ "location" \notin satellite_data.keys
              \/ Len(satellite_data.dates) # Len(satellite_data.values))
             => events.ret = <<>>

\* C4 witness: a call on an argument that is no mapping has returned
C4_Witness ==
    /\ Returned
    /\ ~satellite_data.mapping
    /\ events = [exc |-> "none", ret |-> <<>>]

\* C5: under a name that is not a registered strategy, detect_events returns
\* what it returns for the same record under 'change_detection'.
C5_UnknownAlgorithmIsChangeDetection ==
    (Returned /\ algorithm \notin detection_algorithms)
        => DetectEvents(satellite_data, "change_detection") = {events}

\* C5 witness: an unregistered name has produced an event
C5_Witness ==
    /\ Returned
    /\ algorithm = "clustering"
    /\ events.ret # <<>>

\* ------------------------------------------------------------------------
\* Specification of the confidence: one call of _calculate_confidence
\* ------------------------------------------------------------------------

\* the longest series given to _calculate_confidence
MaxConfLen == 4

\* the values of those series are the integers from -MaxConfValue to
\* MaxConfValue (in any unit: the confidence is made of ratios)
MaxConfValue == 2

RECURSIVE SortedSeq(_)
SortedSeq(S) ==
    IF S = {} THEN <<>>
    ELSE LET m == CHOOSE x \in S : \A y \in S : x <= y
         IN <<m>> \o SortedSeq(S \ {m})

\* the index lists over a series of n points: what list(range(a, b)) and a
\* group of consecutive indices give, and every other increasing list
IndexLists(n) == {SortedSeq(S) : S \in SUBSET (1..n)}

InitConfidence ==
    /\ pc = "call"
    /\ \E n \in 1..MaxConfLen :
          /\ values \in [1..n -> (-MaxConfValue)..MaxConfValue]
          /\ event_indices \in IndexLists(n)
    /\ confidence = Unused
    /\ satellite_data = Unused
    /\ algorithm = Unused
    /\ events = Unused
    /\ raw_data = Unused
    /\ filters = Unused
    /\ time_series = Unused
    /\ processed_data = Unused
    /\ PredictorUnused
    /\ PhenologyUnused
    /\ CacheUnused
    /\ GroupingUnused
    /\ TrackingUnused
    /\ TwinUnused

CallCalculateConfidence ==
    /\ pc = "call"
    /\ confidence' = CalculateConfidence(event_indices, values)
    /\ pc' = "done"
    /\ UNCHANGED <<event_indices, values, detector_vars, cleaner_vars,
                   predictor_vars, phenology_vars,
                   cache_vars,
                   grouping_vars,
                   tracking_vars,
                   twin_vars>>

NextConfidence == CallCalculateConfidence

SpecConfidence == InitConfidence /\ [][NextConfidence]_vars

\* C3: the confidence of any index list over any series of finite values is
\* a finite number between 0 and 1, also when the series has no variance,
\* when its mean is zero and when the mean of the event values is not
\* positive.
C3_ConfidenceFiniteInUnitInterval ==
    Returned =>
        /\ IsFinite(confidence)
        /\ 0 <= confidence.v
        /\ confidence.v <= 1000

\* C3 witness: the confidence of two points of an all-zero series (no
\* variance, mean zero, event mean zero): the nan of the intensity and of the
\* contrast each count as 1.0, which gives 0.4 + 0.2 * 2/5 + 0 + 0.2
C3_Witness ==
    /\ Returned
    /\ values = <<0, 0, 0>>
    /\ event_indices = <<1, 2>>
    /\ confidence = Fin(680)

IsTestScenario(data) ==
    /\ HasSeries(data)
    /\ data.values = TestValues
    /\ data.dates \in {TestDates, RegularDates(16, 5)}
    /\ GoodPointCount(data) = 5

IsFlat(data) ==
    /\ HasSeries(data)
    /\ Len(data.dates) = Len(data.values)
    /\ GoodPointCount(data) = Len(data.values)
    /\ \A i \in 1..Len(data.values) : data.values[i] = data.values[1]

\* C7: a series whose values all equal one constant, all flagged good, gives
\* no event under any algorithm.
C7_FlatSeriesNoEvents ==
    (Returned /\ IsFlat(satellite_data)) => events.ret = <<>>

\* ------------------------------------------------------------------------
\* Specification of the cleaner: one call of process_time_series
\* ------------------------------------------------------------------------

\* the longest series given to process_time_series
MaxCleanLen == 6

\* the quality flags tried with a series of n points: all good, the first
\* or the second point cloudy, all cloudy, only the last good, flags other
\* than good and cloudy at both ends, one flag too few
CleanerFlags(n) ==
    {[i \in 1..n |-> "good"],
     [i \in 1..n |-> IF i = 1 THEN "cloudy" ELSE "good"],
     [i \in 1..n |-> IF i = 2 THEN "cloudy" ELSE "good"],
     [i \in 1..n |-> "cloudy"],
     [i \in 1..n |-> IF i = n THEN "good" ELSE "cloudy"],
     [i \in 1..n |-> IF i = 1 THEN "shadow"
                     ELSE IF i = n THEN "outlier_corrected" ELSE "good"],
     [i \in 1..Max2(0, n - 1) |-> "good"]}

\* the nested dict: its keys are ts_keys
TimeSeriesDict(ts_keys, n, nums, flags, units) ==
    [k \in ts_keys |->
        CASE k = "dates" -> RegularDates(16, n)
          [] k = "values" -> FloatList(nums, 100)
          [] k = "quality_flags" -> flags
          [] k = "units" -> units]

RawRecord(ts) ==
    [mapping |-> TRUE,
     dict |-> [time_series |-> ts, location |-> GoodLocation, product_info |-> "test"]]

\* every series of n points over the values 0.01 and 1.0, with and without
\* quality flags
CleanerSeries(n) ==
    {RawRecord(TimeSeriesDict(ts_keys, n, nums, flags, units)) :
        nums \in [1..n -> {1, 100}],
        flags \in CleanerFlags(n),
        units \in {"NDVI", "EVI"},
        ts_keys \in {{"dates", "values", "quality_flags", "units"},
                     {"dates", "values", "units"}}}

\* the malformed arguments: not a dict (dict is then meaningless), no
\* 'time_series', a 'time_series' without 'values'
MalformedRecords ==
    {[mapping |-> FALSE, dict |-> [location |-> GoodLocation]],
     [mapping |-> TRUE, dict |-> [location |-> GoodLocation]],
     RawRecord(TimeSeriesDict({"dates", "quality_flags", "units"}, 3, <<1, 1, 1>>,
                              <<"good", "cloudy", "good">>, "NDVI"))}

NoFilters == [none |-> TRUE, list |-> <<>>]

FilterList(names) == [none |-> FALSE, list |-> names]

FilterArguments ==
    {NoFilters}
        \cup {FilterList(<<name>>) : name \in filter_names \cup {"unknown"}}
        \cup {FilterList(<<>>),
              FilterList(default_filters),
              FilterList(<<"outlier_removal", "cloud_mask">>),
              FilterList(<<"cloud_mask", "outlier_removal">>),
              FilterList(<<"unknown", "outlier_removal">>)}

HasSeriesDict(data) == data.mapping /\ "time_series" \in DOMAIN data.dict

InitCleaner ==
    /\ pc = "call"
    /\ \/ \E n \in 0..MaxCleanLen : raw_data \in CleanerSeries(n)
       \/ raw_data \in MalformedRecords
    /\ filters \in FilterArguments
    /\ time_series = IF HasSeriesDict(raw_data) THEN raw_data.dict["time_series"]
                     ELSE Unused
    /\ processed_data = Unused
    /\ satellite_data = Unused
    /\ algorithm = Unused
    /\ events = Unused
    /\ event_indices = Unused
    /\ values = Unused
    /\ confidence = Unused
    /\ PredictorUnused
    /\ PhenologyUnused
    /\ CacheUnused
    /\ GroupingUnused
    /\ TrackingUnused
    /\ TwinUnused

CallProcessTimeSeries ==
    /\ pc = "call"
    /\ \E outcome \in ProcessTimeSeries(raw_data, filters) :
          /\ processed_data' = [failed |-> outcome.failed, ret |-> outcome.ret]
          /\ time_series' = IF HasSeriesDict(raw_data) THEN outcome.ts ELSE time_series
    /\ pc' = "done"
    /\ UNCHANGED <<raw_data, filters, detector_vars, confidence_vars,
                   predictor_vars, phenology_vars,
                   cache_vars,
                   grouping_vars,
                   tracking_vars,
                   twin_vars>>

NextCleaner == CallProcessTimeSeries

SpecCleaner == InitCleaner /\ [][NextCleaner]_vars

\* ------------------------------------------------------------------------
\* Properties of process_time_series
\* ------------------------------------------------------------------------

\* the nested dict of the argument, as given
GivenSeries == raw_data.dict["time_series"]

\* the nested dict of the record returned
ReturnedSeries == processed_data.ret["time_series"]

\* the argument is a record with a series of values
HasValues(data) == HasSeriesDict(data) /\ "values" \in DOMAIN data.dict["time_series"]

\* the series has one quality flag per value, all of them 'good'
EveryPointGood(data) ==
    /\ HasValues(data)
    /\ "quality_flags" \in DOMAIN data.dict["time_series"]
    /\ LET ts == data.dict["time_series"]
       IN /\ Len(ts["quality_flags"]) = Len(ts["values"].num)
          /\ \A i \in 1..Len(ts["quality_flags"]) : ts["quality_flags"][i] = "good"

DefaultFilters(f) == f.none \/ f.list = default_filters

\* value i of the list lies outside [Q25 - 1.5 IQR, Q75 + 1.5 IQR], the
\* quartiles being those of the list
OutsideIqrBounds(list, i) ==
    \/ 8 * list.num[i] < LowerBound8(list.num)
    \/ 8 * list.num[i] > UpperBound8(list.num)

ValuesAndFlagsAsGiven ==
    /\ ReturnedSeries["values"] = GivenSeries["values"]
    /\ ReturnedSeries["quality_flags"] = GivenSeries["quality_flags"]

\* C8, as claimed: with the default filters, a series whose points are all
\* flagged good comes back with the values and the flags it had, whatever
\* the values, a value outside the IQR bounds included.
C8_AllGoodSeriesUnchanged ==
    (Returned /\ EveryPointGood(raw_data) /\ DefaultFilters(filters))
        => ValuesAndFlagsAsGiven

\* C8, amended: with the default filters, a series whose points are all
\* flagged good and none of whose values lies outside the IQR bounds comes
\* back with the values and the flags it had.
C8_AllGoodSeriesWithoutOutlierUnchanged ==
    (Returned /\ EveryPointGood(raw_data) /\ DefaultFilters(filters)
       /\ \A i \in 1..Len(GivenSeries["values"].num) :
             ~OutsideIqrBounds(GivenSeries["values"], i))
        => ValuesAndFlagsAsGiven

\* C8 witness: an all-good series of 6 points that are not all equal, none
\* outside the bounds, has gone through the three default filters (the
\* smoothing has run) and has its values and flags
C8_Witness ==
    /\ Returned
    /\ EveryPointGood(raw_data)
    /\ filters = NoFilters
    /\ GivenSeries["values"] = FloatList(<<1, 100, 1, 100, 1, 100>>, 100)
    /\ ~processed_data.failed
    /\ "values_smoothed" \in DOMAIN ReturnedSeries
    /\ ValuesAndFlagsAsGiven

\* point i is 100 times the other points, which are all equal and positive
SpikeAt(list, i) ==
    /\ list.nan = {}
    /\ i \in 1..Len(list.num)
    /\ \A j \in 1..Len(list.num) :
          j # i => (list.num[j] > 0 /\ list.num[i] = 100 * list.num[j])

\* the series has one quality flag per value, or no quality flags
FlagsFitValues(data) ==
    /\ HasValues(data)
    /\ LET ts == data.dict["time_series"]
       IN "quality_flags" \in DOMAIN ts
             => Len(ts["quality_flags"]) = Len(ts["values"].num)

\* the flag the argument gives point j: 'good' when it gives no flags
GivenFlag(j) ==
    IF "quality_flags" \in DOMAIN GivenSeries THEN GivenSeries["quality_flags"][j]
    ELSE "good"

\* point i has been replaced by a value within the IQR bounds of the given
\* values and flagged, and the other points are as given
SpikeCorrected(i) ==
    LET given == GivenSeries["values"]
        result == ReturnedSeries["values"]
    IN /\ Len(result.num) = Len(given.num)
       /\ "quality_flags" \in DOMAIN ReturnedSeries
       /\ Len(ReturnedSeries["quality_flags"]) = Len(given.num)
       /\ i \notin result.nan
       /\ LowerBound8(given.num) * result.den <= 8 * result.num[i] * given.den
       /\ 8 * result.num[i] * given.den <= UpperBound8(given.num) * result.den
       /\ ReturnedSeries["quality_flags"][i] = "outlier_corrected"
       /\ \A j \in 1..Len(given.num) :
             j # i => /\ j \notin result.nan
                      /\ result.num[j] * given.den = given.num[j] * result.den
                      /\ ReturnedSeries["quality_flags"][j] = GivenFlag(j)

OutlierRemovalOnly(f) == ~f.none /\ f.list = <<"outlier_removal">>

\* C9, as claimed: in a series of 3 points or more, a point that is 100
\* times the other, equal and positive, points is replaced by outlier_removal
\* by a value within the IQR bounds of the given values and is flagged
\* 'outlier_corrected'; the other points keep their value and flag.
C9_SpikeCorrectedFromThreePoints ==
    (Returned /\ FlagsFitValues(raw_data) /\ OutlierRemovalOnly(filters))
        => \A i \in 1..Len(GivenSeries["values"].num) :
              (Len(GivenSeries["values"].num) >= 3 /\ SpikeAt(GivenSeries["values"], i))
                  => SpikeCorrected(i)

\* C9, amended: the same for a series of 4 points or more (among 3 points
\* the upper bound, 124.75 times the common value, is above the spike).
C9_SpikeCorrectedFromFourPoints ==
    (Returned /\ FlagsFitValues(raw_data) /\ OutlierRemovalOnly(filters))
        => \A i \in 1..Len(GivenSeries["values"].num) :
              (Len(GivenSeries["values"].num) >= 4 /\ SpikeAt(GivenSeries["values"], i))
                  => SpikeCorrected(i)

\* C9 witness: the spike of a series of 4 points has been replaced by the
\* value of its neighbours and flagged
C9_Witness ==
    /\ Returned
    /\ FlagsFitValues(raw_data)
    /\ OutlierRemovalOnly(filters)
    /\ GivenSeries["values"] = FloatList(<<1, 100, 1, 1>>, 100)
    /\ SpikeCorrected(2)
    /\ ReturnedSeries["values"] = FloatList(<<1, 1, 1, 1>>, 100)

\* C10: process_time_series leaves its argument as it was: after the call,
\* whether it succeeded or failed, the nested 'time_series' of the caller's
\* record has the keys, the values and the quality flags it had before.
C10_ArgumentUntouched ==
    (Returned /\ HasSeriesDict(raw_data)) => time_series = GivenSeries

\* the names of the list that are keys of self.filters, in their order
KnownOnly(names) == SelectSeq(names, LAMBDA name : name \in filter_names)

\* what process_time_series can return for the argument and the filter list
\* without its unknown names
ReturnedWithoutUnknown ==
    {[failed |-> outcome.failed, ret |-> outcome.ret] :
        outcome \in ProcessTimeSeries(raw_data, [none |-> filters.none,
                                                 list |-> KnownOnly(filters.list)])}

\* the result is a result for the list without its unknown names
UnknownNamesSkipped == Returned => processed_data \in ReturnedWithoutUnknown

\* a record without 'time_series' is returned with its content
NoSeriesAsGiven ==
    (Returned /\ raw_data.mapping /\ ~HasSeriesDict(raw_data))
        => processed_data.ret = raw_data.dict

\* one of the filters of the list raises, whatever np.percentile does with
\* an empty array
FilterFails ==
    /\ HasSeriesDict(raw_data)
    /\ \A empty_percentile \in EmptyPercentile :
          ApplyFilters(IF filters.none THEN default_filters ELSE filters.list,
                       StartOf(raw_data), empty_percentile).exc # "none"

\* a record on which a filter fails is returned with the content it had
FailedAsGiven ==
    (Returned /\ FilterFails) => processed_data.ret = raw_data.dict

\* C11: the filters are applied in the order of the list and the unknown
\* names are skipped (the result is a result for the list without them); a
\* record without 'time_series', and a record on which a filter fails, is
\* returned with the content it had on entry.
C11_UnknownSkippedAndFailedAsGiven ==
    UnknownNamesSkipped /\ NoSeriesAsGiven /\ FailedAsGiven

\* ------------------------------------------------------------------------
\* Specification of the predictor: one call of predict_flowering
\* ------------------------------------------------------------------------

DetectorUnused ==
    /\ satellite_data = Unused
    /\ algorithm = Unused
    /\ events = Unused

ConfidenceUnused ==
    /\ event_indices = Unused
    /\ values = Unused
    /\ confidence = Unused

CleanerUnused ==
    /\ raw_data = Unused
    /\ filters = Unused
    /\ time_series = Unused
    /\ processed_data = Unused

\* the longest of the exhaustively enumerated histories
MaxHistoryLen == 3

\* the largest days_ahead tried with each of them
MaxDaysAhead == 3

\* the noise drawn for a future date, in thousandths: below and above 0
Noise == {-200, 200}

History(dates, vals) ==
    [falsy |-> FALSE,
     mapping |-> TRUE,
     keys |-> {"time_series", "location", "product_info"},
     ts_keys |-> {"dates", "values", "quality_flags"},
     dates |-> dates,
     values |-> vals]

\* 2 January is day 2 of a year, and the two other dates are the day before
\* and two days before 2 January 2024
HistoryDays == {<<2023, 1, 2>>, <<2023, 12, 31>>, <<2024, 1, 1>>}

\* every history of n points on those days, in every order, over a negative
\* and a positive value
ShortHistories(n) ==
    {History(dates, vals) :
        dates \in [1..n -> HistoryDays], vals \in [1..n -> {-50, 10}]}

\* the record of the repository's test, the day before a 29 February, a
\* day of the year whose mean is zero, and dates with fewer values or none
OtherHistories ==
    {History(TestDates, TestValues),
     History(<<<<2024, 2, 27>>, <<2024, 2, 28>>>>, <<10, 50>>),
     History(<<<<2023, 1, 2>>, <<2024, 1, 1>>>>, <<0, 10>>),
     History(<<<<2022, 1, 2>>, <<2023, 1, 2>>, <<2024, 1, 1>>>>, <<-10, 10, 50>>),
     History(<<<<2023, 1, 2>>, <<2024, 1, 1>>>>, <<0, 0>>),
     History(<<<<2023, 1, 2>>, <<2024, 1, 1>>>>, <<10>>),
     History(<<<<2023, 1, 2>>, <<2024, 1, 1>>>>, <<>>)}

\* the malformed arguments: None or {}, not a dict, no 'time_series', no
\* 'dates', no 'values', an impossible date
MalformedHistories ==
    {[History(TestDates, TestValues) EXCEPT !.falsy = TRUE, !.mapping = FALSE],
     [History(TestDates, TestValues) EXCEPT !.falsy = TRUE, !.keys = {}],
     [History(TestDates, TestValues) EXCEPT !.mapping = FALSE],
     [History(TestDates, TestValues) EXCEPT !.keys = {"location"}],
     [History(TestDates, TestValues) EXCEPT !.ts_keys = {"values"}],
     [History(TestDates, TestValues) EXCEPT !.ts_keys = {"dates"}],
     [History(TestDates, TestValues) EXCEPT !.dates[2] = <<2024, 2, 30>>]}

\* days_ahead of the test
TestDaysAhead == 10

InitPredictor ==
    /\ pc = "call"
    /\ \/ /\ \/ \E n \in 0..MaxHistoryLen : historical_data \in ShortHistories(n)
             \/ historical_data \in OtherHistories \cup MalformedHistories
          /\ days_ahead \in -1..MaxDaysAhead
       \/ /\ historical_data = History(TestDates, TestValues)
          /\ days_ahead = TestDaysAhead
    /\ predictions = Unused
    /\ DetectorUnused
    /\ ConfidenceUnused
    /\ CleanerUnused
    /\ PhenologyUnused
    /\ CacheUnused
    /\ GroupingUnused
    /\ TrackingUnused
    /\ TwinUnused

\* the noises drawn for n future dates: every sequence of draws for the
\* first MaxDaysAhead dates, repeated for the dates after them
NoiseSequences(n) ==
    {[i \in 1..n |-> draws[((i - 1) % MaxDaysAhead) + 1]] :
        draws \in [1..Min2(n, MaxDaysAhead) -> Noise]}

\* the behaviours of np.random.normal there are to choose from: one, but
\* for an empty array of values
StdBehaviours(vals) == IF vals = <<>> THEN EmptyStd ELSE {"nan"}

CallPredictFlowering ==
    /\ pc = "call"
    /\ \E noise \in NoiseSequences(Max2(0, days_ahead)),
          empty_std \in StdBehaviours(historical_data.values) :
          predictions' = PredictFlowering(historical_data, days_ahead, noise, empty_std)
    /\ pc' = "done"
    /\ UNCHANGED <<historical_data, days_ahead, detector_vars, confidence_vars,
                   cleaner_vars, phenology_vars,
                   cache_vars,
                   grouping_vars,
                   tracking_vars,
                   twin_vars>>

NextPredictor == CallPredictFlowering

SpecPredictor == InitPredictor /\ [][NextPredictor]_vars

\* ------------------------------------------------------------------------
\* Properties of predict_flowering
\* ------------------------------------------------------------------------

\* the argument is a record with a series of dates that parse
HasParsedDates(data) ==
    /\ ~data.falsy
    /\ data.mapping
    /\ "time_series" \in data.keys
    /\ {"dates", "values"} \subseteq data.ts_keys
    /\ \A i \in 1..Len(data.dates) : ValidDateString(data.dates[i])

\* a historical series: dates that parse, with values, and not empty
NonEmptyHistory(data) ==
    /\ HasParsedDates(data)
    /\ data.dates # <<>>
    /\ data.values # <<>>

\* the latest date of the argument, as an ordinal
LatestDate ==
    CHOOSE d \in {Strptime(historical_data.dates[i]) :
                     i \in 1..Len(historical_data.dates)} :
        \A i \in 1..Len(historical_data.dates) : Strptime(historical_data.dates[i]) <= d

\* C12: for a non-empty historical series and days_ahead >= 0,
\* predict_flowering returns days_ahead predictions, prediction i being for
\* the i-th calendar day after the latest date of the series (so the dates
\* are consecutive and strictly increasing).
C12_OnePredictionPerFollowingDay ==
    (Returned /\ NonEmptyHistory(historical_data) /\ days_ahead >= 0)
        => /\ Len(predictions.ret) = days_ahead
           /\ \A i \in 1..Len(predictions.ret) :
                 /\ ValidDateString(predictions.ret[i].date)
                 /\ Strptime(predictions.ret[i].date) = LatestDate + i

\* C12 witness: the call of the test has returned 10 predictions, from
\* 2 March to 11 March 2024
C12_Witness ==
    /\ Returned
    /\ historical_data = History(TestDates, TestValues)
    /\ days_ahead = 10
    /\ Len(predictions.ret) = 10
    /\ predictions.ret[1].date = <<2024, 3, 2>>
    /\ predictions.ret[10].date = <<2024, 3, 11>>

\* the typical value for the day of the year of a future date: the mean of
\* the historical values of that day, 0.5 when the history has none
TypicalValue(future_date) ==
    LET dates == [i \in 1..Len(historical_data.dates) |->
                     Strptime(historical_data.dates[i])]
        same_day == {i \in Zipped(dates, historical_data.values) :
                        DayOfYear(dates[i]) = DayOfYear(future_date)}
    IN IF same_day = {} THEN Ratio(1, 2) ELSE MeanAt(historical_data.values, same_day)

\* 0 <= x <= 1
InUnitInterval(x) == x.k = "fin" /\ 0 <= x.p /\ x.p <= x.q

\* the probability is 0 when the predicted value is at most 1.15 times the
\* typical one, and min(1, (predicted - typical) / typical) otherwise
ProbabilityAsSpecified(prediction) ==
    LET typical == TypicalValue(Strptime(prediction.date))
        predicted == prediction.predicted_ndvi
        probability == prediction.flowering_probability
    IN IF predicted.k # "fin" \/ ~(100 * predicted.p * typical.q
                                      > 115 * typical.p * predicted.q)
       THEN probability = Ratio(0, 1)
       ELSE probability = MinWithOne(RelativeExcess(predicted, typical))

EveryProbabilityAsSpecified ==
    (Returned /\ HasParsedDates(historical_data))
        => \A i \in 1..Len(predictions.ret) : ProbabilityAsSpecified(predictions.ret[i])

EveryProbabilityInUnitInterval ==
    (Returned /\ HasParsedDates(historical_data))
        => \A i \in 1..Len(predictions.ret) :
              InUnitInterval(predictions.ret[i].flowering_probability)

\* C13: every prediction has a flowering probability in [0, 1], which is 0
\* when the predicted value is at most 1.15 times the typical value for
\* the day of the year and min(1, (predicted - typical) / typical)
\* otherwise, whatever the history: a seasonal mean that is zero or
\* negative and a day absent from the history included.
C13_ProbabilityInUnitInterval ==
    EveryProbabilityAsSpecified /\ EveryProbabilityInUnitInterval

\* predict_flowering has been given None, an empty dict, a dict without
\* 'time_series' or a series without dates
NothingToPredictFrom(data) ==
    \/ data.falsy
    \/ data.mapping /\ "time_series" \notin data.keys
    \/ data.mapping /\ "time_series" \in data.keys /\ "dates" \in data.ts_keys
          /\ data.dates = <<>>

\* C14: predict_flowering never raises, and returns the empty list when the
\* historical input is missing, empty, without 'time_series' or with an
\* empty sequence of dates.
C14_PredictNeverRaises ==
    Returned => /\ predictions.exc = "none"
                /\ NothingToPredictFrom(historical_data) => predictions.ret = <<>>

\* C14 witness: a call with a series of no dates, which max() refuses, has
\* returned the empty list
C14_Witness ==
    /\ Returned
    /\ ~historical_data.falsy
    /\ historical_data.mapping
    /\ "time_series" \in historical_data.keys
    /\ historical_data.dates = <<>>
    /\ days_ahead > 0
    /\ predictions = [exc |-> "none", ret |-> <<>>]

\* ------------------------------------------------------------------------
\* Specification of the phenology metrics: one call of
\* calculate_phenology_metrics
\* ------------------------------------------------------------------------

\* the longest series given to calculate_phenology_metrics
MaxPhenologyLen == 6

\* every series of n points, 16 days apart, with as many dates as values,
\* one date more or one date fewer
PhenologySeries(n) ==
    {History(RegularDates(16, m), vals) :
        vals \in [1..n -> {-20, 10, 90}],
        m \in {n, n + 1, Max2(0, n - 1)}}

InitPhenology ==
    /\ pc = "call"
    /\ \/ \E n \in 0..MaxPhenologyLen : phenology_data \in PhenologySeries(n)
       \/ phenology_data \in MalformedHistories
    /\ metrics = Unused
    /\ DetectorUnused
    /\ ConfidenceUnused
    /\ CleanerUnused
    /\ PredictorUnused
    /\ CacheUnused
    /\ GroupingUnused
    /\ TrackingUnused
    /\ TwinUnused

CallCalculatePhenologyMetrics ==
    /\ pc = "call"
    /\ metrics' = CalculatePhenologyMetrics(phenology_data)
    /\ pc' = "done"
    /\ UNCHANGED <<phenology_data, detector_vars, confidence_vars, cleaner_vars,
                   predictor_vars,
                   cache_vars,
                   grouping_vars,
                   tracking_vars,
                   twin_vars>>

NextPhenology == CallCalculatePhenologyMetrics

SpecPhenology == InitPhenology /\ [][NextPhenology]_vars

\* C15: none of process_time_series, detect_events, predict_flowering and
\* calculate_phenology_metrics lets an exception reach its caller, whatever
\* it is given (an empty values sequence, unparseable dates, dates and
\* values of different lengths).  The first three end in a handler that
\* returns (C4, C14, ProcessTimeSeries); this is the fourth.
C15_NoExceptionReachesCaller == Returned => metrics.exc = "none"

\* ------------------------------------------------------------------------
\* Specification of the cache: steps of the CacheManager, and time passing
\* ------------------------------------------------------------------------

PhenologyAndPredictorUnused == PredictorUnused /\ PhenologyUnused

\* the number of calls and advances of the clock in a behaviour
MaxSteps == 4

CacheKeys == {"a", "b"}

\* the default data type, which has no subdirectory, and one that has
CacheDataTypes == {"general", "events"}

\* two values, and one pickle.dump refuses (a lambda, say)
CacheData ==
    {[picklable |-> TRUE, value |-> "x"], [picklable |-> TRUE, value |-> "y"],
     [picklable |-> FALSE, value |-> "lambda"]}

\* expiry_hours: None, 0 and 1
ExpiryArguments ==
    {[none |-> TRUE, hours |-> 0], [none |-> FALSE, hours |-> 0],
     [none |-> FALSE, hours |-> 1]}

\* the data_type given to clear: None, and the two types
ClearArguments ==
    {[none |-> TRUE, name |-> ""]}
        \cup {[none |-> FALSE, name |-> t] : t \in CacheDataTypes}

\* the hours expiry_hours asks for: the default for None
HoursAskedFor(expiry_hours) ==
    IF expiry_hours.none THEN default_expiry_hours ELSE expiry_hours.hours

\* last_set without the entries of the key
Untouched(entries, key) ==
    [e \in {x \in DOMAIN entries : x[1] # key} |-> entries[e]]

InitCache ==
    /\ pc = "call"
    /\ cache_files = <<>>
    /\ clock = 0
    /\ cache_result = [op |-> "init"]
    /\ last_set = <<>>
    /\ steps = 0
    /\ DetectorUnused
    /\ ConfidenceUnused
    /\ CleanerUnused
    /\ PhenologyAndPredictorUnused
    /\ GroupingUnused
    /\ TrackingUnused
    /\ TwinUnused

OtherUnchanged ==
    UNCHANGED <<pc, detector_vars, confidence_vars, cleaner_vars, predictor_vars,
                phenology_vars, grouping_vars, tracking_vars, twin_vars>>

CallSet ==
    /\ steps < MaxSteps
    /\ \E key \in CacheKeys, data \in CacheData, data_type \in CacheDataTypes,
          expiry_hours \in ExpiryArguments :
          LET outcome == Set(cache_files, key, data, data_type, expiry_hours, clock)
          IN /\ cache_files' = outcome.files
             /\ cache_result' = [op |-> "set", key |-> key, data_type |-> data_type,
                                 ret |-> outcome.ret]
             /\ last_set' =
                   IF outcome.ret
                   THEN DictSet(Untouched(last_set, key), <<key, data_type>>,
                                [data |-> data.value, at |-> clock,
                                 hours |-> HoursAskedFor(expiry_hours)])
                   ELSE Untouched(last_set, key)
    /\ steps' = steps + 1
    /\ UNCHANGED clock
    /\ OtherUnchanged

CallGet ==
    /\ steps < MaxSteps
    /\ \E key \in CacheKeys, data_type \in CacheDataTypes :
          LET outcome == Get(cache_files, key, data_type, clock)
          IN /\ cache_files' = outcome.files
             /\ cache_result' = [op |-> "get", key |-> key, data_type |-> data_type,
                                 ret |-> outcome.ret]
    /\ steps' = steps + 1
    /\ UNCHANGED <<clock, last_set>>
    /\ OtherUnchanged

CallDelete ==
    /\ steps < MaxSteps
    /\ \E key \in CacheKeys, data_type \in CacheDataTypes :
          LET outcome == Delete(cache_files, key, data_type)
          IN /\ cache_files' = outcome.files
             /\ cache_result' = [op |-> "delete", key |-> key,
                                 data_type |-> data_type, ret |-> outcome.ret]
             /\ last_set' = Untouched(last_set, key)
    /\ steps' = steps + 1
    /\ UNCHANGED clock
    /\ OtherUnchanged

CallClear ==
    /\ steps < MaxSteps
    /\ \E data_type \in ClearArguments :
          LET outcome == Clear(cache_files, data_type)
          IN /\ cache_files' = outcome.files
             /\ cache_result' = [op |-> "clear", data_type |-> data_type,
                                 ret |-> outcome.ret]
    /\ last_set' = <<>>
    /\ steps' = steps + 1
    /\ UNCHANGED clock
    /\ OtherUnchanged

CallCleanupExpired ==
    /\ steps < MaxSteps
    /\ LET outcome == CleanupExpired(cache_files, clock)
       IN /\ cache_files' = outcome.files
          /\ cache_result' = [op |-> "cleanup_expired", ret |-> outcome.ret]
    /\ steps' = steps + 1
    /\ UNCHANGED <<clock, last_set>>
    /\ OtherUnchanged

CallUpdateExpiry ==
    /\ steps < MaxSteps
    /\ \E key \in CacheKeys, data_type \in CacheDataTypes,
          new_expiry_hours \in ExpiryArguments :
          LET outcome == UpdateExpiry(cache_files, key, data_type, new_expiry_hours,
                                      clock)
          IN /\ cache_files' = outcome.files
             /\ cache_result' = [op |-> "update_expiry", key |-> key,
                                 data_type |-> data_type, ret |-> outcome.ret]
             /\ last_set' =
                   IF outcome.ret /\ <<key, data_type>> \in DOMAIN last_set
                   THEN [last_set EXCEPT
                            ![<<key, data_type>>].at = clock,
                            ![<<key, data_type>>].hours = HoursAskedFor(new_expiry_hours)]
                   ELSE last_set
    /\ steps' = steps + 1
    /\ UNCHANGED clock
    /\ OtherUnchanged

CallExists ==
    /\ steps < MaxSteps
    /\ \E key \in CacheKeys, data_type \in CacheDataTypes :
          cache_result' = [op |-> "exists", key |-> key, data_type |-> data_type,
                           ret |-> Exists(cache_files, key, data_type, clock)]
    /\ steps' = steps + 1
    /\ UNCHANGED <<cache_files, clock, last_set>>
    /\ OtherUnchanged

\* an hour or a day passes
Tick ==
    /\ steps < MaxSteps
    /\ \E hours \in {1, default_expiry_hours} : clock' = clock + hours
    /\ cache_result' = [op |-> "tick"]
    /\ steps' = steps + 1
    /\ UNCHANGED <<cache_files, last_set>>
    /\ OtherUnchanged

NextCache ==
    \/ CallSet
    \/ CallGet
    \/ CallDelete
    \/ CallClear
    \/ CallCleanupExpired
    \/ CallUpdateExpiry
    \/ CallExists
    \/ Tick

SpecCache == InitCache /\ [][NextCache]_vars

\* ------------------------------------------------------------------------
\* Properties of the cache
\* ------------------------------------------------------------------------

\* the last step was clear(), with data_type None
ClearedEverything == cache_result.op = "clear" /\ cache_result.data_type.none

\* no get finds an entry in the files
NothingToGet(files, now) ==
    \A key \in CacheKeys, data_type \in CacheDataTypes :
        Get(files, key, data_type, now).ret = None

\* clear() returns the number of files it removed
ClearCountsWhatItRemoves ==
    [][ClearedEverything' =>
          cache_result'.ret
              = Cardinality(DOMAIN cache_files) - Cardinality(DOMAIN cache_files')]_vars

\* C16: after clear() with data_type None, get returns None for every key and
\* data type that was set, the default 'general' included, and clear returned
\* the number of entries it removed.
C16_ClearRemovesEveryEntry ==
    [][ClearedEverything' =>
          /\ NothingToGet(cache_files', clock')
          /\ cache_result'.ret
                = Cardinality(DOMAIN cache_files) - Cardinality(DOMAIN cache_files')]_vars

\* the entry the last get asked for, as it was last set
SetBeforeGet == last_set[<<cache_result.key, cache_result.data_type>>]

\* the last step was a get of an entry that was set and not touched since
GotWhatWasSet ==
    /\ cache_result.op = "get"
    /\ <<cache_result.key, cache_result.data_type>> \in DOMAIN last_set

\* the file get read, or removed
FileOfGet == GetCacheFilePath(cache_result.key, cache_result.data_type)

\* before the expiry time, get returns the data that was set
FreshIsReturned ==
    GotWhatWasSet /\ clock - SetBeforeGet.at < SetBeforeGet.hours
        => cache_result.ret = [found |-> TRUE, data |-> SetBeforeGet.data]

\* after the expiry time, get returns None and the file is gone
ExpiredIsRemoved ==
    GotWhatWasSet /\ clock - SetBeforeGet.at > SetBeforeGet.hours
        => cache_result.ret = None /\ FileOfGet \notin DOMAIN cache_files

\* the same for the entries set with a positive or no expiry_hours, which
\* holds: the entries that outlive their expiry time are those set with 0
PositiveExpiryIsRemoved ==
    GotWhatWasSet /\ SetBeforeGet.hours > 0 /\ clock - SetBeforeGet.at > SetBeforeGet.hours
        => cache_result.ret = None /\ FileOfGet \notin DOMAIN cache_files

\* C17: after a set that returned True, and while no later set, delete or
\* clear touched the key, get returns the data before expiry_hours hours have
\* passed (the default only for None), and after them it returns None and
\* removes the file.  update_expiry counts as setting the expiry anew.
C17_GetUntilExpiry == FreshIsReturned /\ ExpiredIsRemoved

\* ------------------------------------------------------------------------
\* Specification of the cloud mask: one call of process_time_series with
\* the filter cloud_mask, on every assignment of quality flags
\* ------------------------------------------------------------------------

\* the longest series given to cloud_mask
MaxMaskLen == 5

\* every series of n points over the values 0.01, 0.4 and 1.0, each point
\* flagged good or cloudy
CloudMaskSeries(n) ==
    {RawRecord(TimeSeriesDict({"dates", "values", "quality_flags", "units"},
                              n, nums, flags, "NDVI")) :
        nums \in [1..n -> {1, 40, 100}],
        flags \in [1..n -> {"good", "cloudy"}]}

InitCloudMask ==
    /\ pc = "call"
    /\ \E n \in 1..MaxMaskLen : raw_data \in CloudMaskSeries(n)
    /\ filters = FilterList(<<"cloud_mask">>)
    /\ time_series = raw_data.dict["time_series"]
    /\ processed_data = Unused
    /\ DetectorUnused
    /\ ConfidenceUnused
    /\ PhenologyAndPredictorUnused
    /\ CacheUnused
    /\ GroupingUnused
    /\ TrackingUnused
    /\ TwinUnused

SpecCloudMask == InitCloudMask /\ [][NextCleaner]_vars

\* ------------------------------------------------------------------------
\* Properties of cloud_mask
\* ------------------------------------------------------------------------

\* the nearest point flagged good on the left of i and on its right, 0 when
\* there is none
GoodOnLeft(i) ==
    LET good == {j \in 1..(i - 1) : GivenFlag(j) = "good"}
    IN IF good = {} THEN 0 ELSE CHOOSE j \in good : \A k \in good : k <= j

GoodOnRight(i) ==
    LET good == {j \in (i + 1)..Len(GivenSeries["values"].num) : GivenFlag(j) = "good"}
    IN IF good = {} THEN 0 ELSE CHOOSE j \in good : \A k \in good : j <= k

\* value i of the result is value j of the argument
SameValue(i, j) ==
    /\ i \notin ReturnedSeries["values"].nan
    /\ j \notin GivenSeries["values"].nan
    /\ ReturnedSeries["values"].num[i] * GivenSeries["values"].den
          = GivenSeries["values"].num[j] * ReturnedSeries["values"].den

\* value i of the result lies on the line through the given points l and r
OnLineBetween(i, l, r) ==
    /\ i \notin ReturnedSeries["values"].nan
    /\ ReturnedSeries["values"].num[i] * GivenSeries["values"].den * (r - l)
          = (GivenSeries["values"].num[l] * (r - i)
               + GivenSeries["values"].num[r] * (i - l))
            * ReturnedSeries["values"].den

\* the value of the repaired point i, l and r being its good neighbours:
\* the mean of no value is left open
RepairedBetween(i, l, r) ==
    IF l # 0 /\ r # 0 THEN OnLineBetween(i, l, r)
    ELSE IF l # 0 THEN SameValue(i, l)
    ELSE IF r # 0 THEN SameValue(i, r)
    ELSE TRUE

\* point i of the result is as cloud_mask is said to leave it
PointAsSpecified(i) ==
    IF GivenFlag(i) = "good"
    THEN SameValue(i, i) /\ ReturnedSeries["quality_flags"][i] = "good"
    ELSE /\ ReturnedSeries["quality_flags"][i] = "interpolated"
         /\ RepairedBetween(i, GoodOnLeft(i), GoodOnRight(i))

MaskedSeriesReturned ==
    /\ ~processed_data.failed
    /\ Len(ReturnedSeries["values"].num) = Len(GivenSeries["values"].num)
    /\ Len(ReturnedSeries["quality_flags"]) = Len(GivenSeries["values"].num)

\* good points keep value and flag; the others are flagged 'interpolated'
\* and take the interpolated value, or that of the one good neighbour
EveryPointAsSpecified ==
    Returned =>
        /\ MaskedSeriesReturned
        /\ \A i \in 1..Len(GivenSeries["values"].num) : PointAsSpecified(i)

\* every value is a finite number
EveryValueFinite == Returned => ReturnedSeries["values"].nan = {}

\* C18: after cloud_mask, whatever the flags (one good point and no good
\* point included), a point flagged good keeps value and flag, and any other
\* point is flagged 'interpolated' and holds the linear interpolation between
\* its nearest good neighbours, the value of the one it has, or the mean of
\* the good values, which is in every case a finite number.
C18_RepairedAndFinite == EveryPointAsSpecified /\ EveryValueFinite

\* ------------------------------------------------------------------------
\* Specification of the grouping: one call of
\* _group_consecutive_exceedances
\* ------------------------------------------------------------------------

\* the longest series given to the grouping
MaxRunLen == 5

\* the days between two dates of a series: runs of 2 to MaxRunLen points
\* then last less than min_duration_days, exactly that, exactly
\* max_duration_days (a run of 2 or of 4 points), and more
RunSteps == {2, 5, 15, 23, 45, 46}

InitGrouping ==
    /\ pc = "call"
    /\ \E n \in 0..MaxRunLen :
          /\ run_dates \in {Eager([i \in 1..n |-> FirstDay + step * (i - 1)]) :
                               step \in RunSteps}
          /\ run_values \in {[num |-> nums, den |-> 100] : nums \in [1..n -> {10, 90}]}
          /\ run_mask \in [1..n -> BOOLEAN]
    /\ run_events = Unused
    /\ DetectorUnused
    /\ ConfidenceUnused
    /\ CleanerUnused
    /\ PhenologyAndPredictorUnused
    /\ CacheUnused
    /\ TrackingUnused
    /\ TwinUnused

CallGroupConsecutiveExceedances ==
    /\ pc = "call"
    /\ run_events' = GroupConsecutiveExceedances(run_dates, run_values, run_mask)
    /\ pc' = "done"
    /\ UNCHANGED <<run_dates, run_values, run_mask, detector_vars, confidence_vars,
                   cleaner_vars, predictor_vars, phenology_vars, cache_vars,
                   tracking_vars,
                   twin_vars>>

NextGrouping == CallGroupConsecutiveExceedances

SpecGrouping == InitGrouping /\ [][NextGrouping]_vars

\* ------------------------------------------------------------------------
\* Properties of the grouping
\* ------------------------------------------------------------------------

\* the indices first..last are a maximal run of true indices of the mask
IsMaximalRun(first, last) ==
    /\ first <= last
    /\ \A i \in first..last : run_mask[i]
    /\ first = 1 \/ ~run_mask[first - 1]
    /\ last = Len(run_mask) \/ ~run_mask[last + 1]

\* the run has 2 indices or more and lasts min_duration_days to
\* max_duration_days
RunQualifies(first, last) ==
    /\ IsMaximalRun(first, last)
    /\ last - first + 1 >= 2
    /\ min_duration_days <= run_dates[last] - run_dates[first]
    /\ run_dates[last] - run_dates[first] <= max_duration_days

QualifyingRuns ==
    {run \in (1..Len(run_mask)) \X (1..Len(run_mask)) : RunQualifies(run[1], run[2])}

\* the peak of the event is at index p, which holds the maximum of the run
PeakAt(event, first, last, p) ==
    /\ \A i \in first..last : run_values.num[i] <= run_values.num[p]
    /\ event.peak_date = Strftime(run_dates[p])
    /\ event.peak_value = [num |-> run_values.num[p], den |-> run_values.den]

\* the event is that of the run first..last
EventOfRun(event, first, last) ==
    /\ event.start_date = Strftime(run_dates[first])
    /\ event.end_date = Strftime(run_dates[last])
    /\ event.duration_days = run_dates[last] - run_dates[first]
    /\ \E p \in first..last : PeakAt(event, first, last, p)

\* C19: the events of the grouping are exactly one per maximal run of true
\* indices that has 2 indices or more and a duration within
\* [min_duration_days, max_duration_days]: the event starts and ends at the
\* first and last index of the run and peaks at the index of its maximum
\* value; no other run produces an event.
C19_OneEventPerQualifyingRun ==
    Returned =>
        /\ Len(run_events) = Cardinality(QualifyingRuns)
        /\ \A run \in QualifyingRuns :
              \E k \in 1..Len(run_events) : EventOfRun(run_events[k], run[1], run[2])
        /\ \A k \in 1..Len(run_events) :
              \E run \in QualifyingRuns : EventOfRun(run_events[k], run[1], run[2])

\* C19 witness: a mask of two runs of 2 indices has given two events, the
\* first of which peaks at its second index; the lone index 5 of another
\* mask gives none
C19_Witness ==
    /\ Returned
    /\ run_mask = <<TRUE, TRUE, FALSE, TRUE, TRUE>>
    /\ run_values.num = <<10, 90, 10, 90, 10>>
    /\ Len(run_events) = 2
    /\ run_events[1].peak_date = Strftime(run_dates[2])
    /\ run_events[2].peak_date = Strftime(run_dates[4])

\* ------------------------------------------------------------------------
\* Specification of the tracking: one call of _detect_by_change
\* ------------------------------------------------------------------------

\* the longest of the exhaustively enumerated series
MaxTrackLen == 6

\* every series of n points over four values, one of them negative
ShortTracks(n) == {[num |-> nums, den |-> 100] : nums \in [1..n -> {-50, 10, 50, 90}]}

\* n points: the value 0.1 up to index at, then a rise of one hundredth per
\* point for rise points from 1.01 on, then tail
Track(n, at, rise, tail) ==
    [num |-> Eager([i \in 1..n |-> IF i <= at THEN 10
                                   ELSE IF i <= at + rise THEN 100 + (i - at)
                                   ELSE tail]),
     den |-> 100]

\* long series: rises shorter and longer than the 9 positions scanned for
\* the peak, followed by a tail below 70% of the peak, between 70% and 80%
\* of it, or above, that is shorter or longer than the 14 positions scanned
\* for the end
LongTracks ==
    {Track(n, at, rise, tail) :
        n \in {12, 20}, at \in {1, 3}, rise \in {1, 5, 9, 10, 12}, tail \in {5, 80, 95}}

\* the days between two dates
TrackSteps == {1, 2, 3, 10}

InitTracking ==
    /\ pc = "call"
    /\ \/ \E n \in 5..MaxTrackLen : track_values \in ShortTracks(n)
       \/ track_values \in LongTracks
    /\ track_dates \in {Eager([i \in 1..Len(track_values.num) |->
                                 FirstDay + step * (i - 1)]) : step \in TrackSteps}
    /\ track_events = Unused
    /\ DetectorUnused
    /\ ConfidenceUnused
    /\ CleanerUnused
    /\ PhenologyAndPredictorUnused
    /\ CacheUnused
    /\ GroupingUnused
    /\ TwinUnused

CallDetectByChange ==
    /\ pc = "call"
    /\ track_events' = DetectByChange(track_dates, track_values)
    /\ pc' = "done"
    /\ UNCHANGED <<track_dates, track_values, detector_vars, confidence_vars,
                   cleaner_vars, predictor_vars, phenology_vars, cache_vars,
                   grouping_vars,
                   twin_vars>>

NextTracking == CallDetectByChange

SpecTracking == InitTracking /\ [][NextTracking]_vars

\* ------------------------------------------------------------------------
\* Properties of the tracking
\* ------------------------------------------------------------------------

\* the smoothed difference at each index is above 1.5 * std or not
Significant == SignificantIncreases(SmoothTimeSeries(Diff(track_values)))

\* index s is an onset: its smoothed difference is above 1.5 * std and that
\* of the previous index is not
IsOnset(significant, s) ==
    /\ s \in 1..Len(significant)
    /\ significant[s]
    /\ s = 1 \/ ~significant[s - 1]

\* the maximum of the values at lo..hi
MaxBetween(nums, lo, hi) ==
    CHOOSE m \in {nums[i] : i \in lo..hi} : \A i \in lo..hi : nums[i] <= m

\* the scan for the peak from the onset s stops at position i: the value is
\* not above the current peak, and below 80% of it
StopsPeakScan(nums, s, i) ==
    /\ nums[i] <= MaxBetween(nums, s, i - 1)
    /\ 10 * nums[i] < 8 * MaxBetween(nums, s, i - 1)

\* the last position the scan takes into the running maximum, when it covers
\* the forward positions that follow the onset
LastScanned(nums, s, forward) ==
    LET last == Min2(Len(nums), s + forward)
        stops == {i \in (s + 1)..last : StopsPeakScan(nums, s, i)}
    IN IF stops = {} THEN last ELSE (CHOOSE i \in stops : \A j \in stops : i <= j) - 1

\* p is the peak of the onset s: the first position of the running maximum
IsPeakOf(nums, s, p, last) ==
    /\ p \in s..last
    /\ nums[p] = MaxBetween(nums, s, last)
    /\ \A i \in s..(p - 1) : nums[i] < nums[p]

\* e is the end for the peak p: the first of the after positions that follow
\* the peak with a value below 70% of the peak, else the last one scanned
IsEndOf(nums, p, e, after) ==
    LET last == Min2(Len(nums), p + after)
        below == {i \in (p + 1)..last : 10 * nums[i] < 7 * nums[p]}
    IN IF below = {} THEN e = last
       ELSE e \in below /\ \A j \in below : e <= j

\* the event is that of the onset s, with peak p and end e
EventOfOnset(event, s, p, e) ==
    /\ event.start_date = Strftime(track_dates[s])
    /\ event.peak_date = Strftime(track_dates[p])
    /\ event.end_date = Strftime(track_dates[e])
    /\ event.peak_value = [num |-> track_values.num[p], den |-> track_values.den]

\* the event tracks an onset as described, over forward positions for the
\* peak and after positions for the end
TracksAnOnset(event, significant, nums, forward, after) ==
    \E s \in 1..Len(significant) :
        /\ IsOnset(significant, s)
        /\ \E p \in s..Len(nums), e \in s..Len(nums) :
              /\ IsPeakOf(nums, s, p, LastScanned(nums, s, forward))
              /\ IsEndOf(nums, p, e, after)
              /\ EventOfOnset(event, s, p, e)

\* every event tracks an onset, and no two events start at the same onset
EventsTrackOnsets(forward, after) ==
    Returned =>
        /\ \A k \in 1..Len(track_events) :
              TracksAnOnset(track_events[k], Significant, track_values.num,
                            forward, after)
        /\ \A k, l \in 1..Len(track_events) :
              track_events[k].start_date = track_events[l].start_date => k = l

\* what the loops of lines 341 and 350 do: the scan for the peak covers the
\* 9 positions after the onset (range(start_idx + 1, start_idx + 10)), the
\* scan for the end the 14 positions after the peak
TrackedOverNineAndFourteen == EventsTrackOnsets(9, 14)

\* C20: every event of change_detection starts at an onset (the smoothed
\* difference is above 1.5 * std and that of the previous index is not), no
\* two events start at the same onset, the peak is the running maximum of a
\* scan of up to 10 positions forward from the onset that stops at the first
\* value below 80% of the current peak, and the end is the first of up to 15
\* positions after the peak with a value below 70% of the peak, or the last
\* position scanned.
C20_EventsTrackOnsets == EventsTrackOnsets(10, 15)

\* the scan for the peak alone, over 10 positions, and that for the end
\* alone, over 15: each fails on its own
PeakWithinTen == EventsTrackOnsets(10, 14)

EndWithinFifteen == EventsTrackOnsets(9, 15)

\* ------------------------------------------------------------------------
\* C21: the fields _enrich_event adds to an event
\* ------------------------------------------------------------------------

\* intensity > 0.1, the intensity being a ratio of integers
IntensityAboveTenth(e) == 10 * e.intensity.num > e.intensity.den

\* the event type as a function of the event's duration and intensity
TypeAsStated(e) ==
    /\ (e.duration_days < 10 /\ IntensityAboveTenth(e))
          => e.event_type = "brief_flowering"
    /\ (e.duration_days < 10 /\ ~IntensityAboveTenth(e))
          => e.event_type = "vegetation_pulse"
    /\ (10 <= e.duration_days /\ e.duration_days < 25)
          => e.event_type = "typical_flowering"
    /\ e.duration_days >= 25 => e.event_type = "extended_flowering"

\* the confidence level as a function of the event's confidence, a finite
\* number of thousandths
LevelAsStated(e) ==
    /\ e.confidence.k = "fin"
    /\ e.confidence.v > 800 => e.confidence_level = "high"
    /\ (600 < e.confidence.v /\ e.confidence.v <= 800)
          => e.confidence_level = "medium"
    /\ e.confidence.v <= 600 => e.confidence_level = "low"

\* C21: every event returned by detect_events carries an event_type and a
\* confidence_level that are the stated functions of its duration_days,
\* intensity and confidence, and the location of the record it was given.
C21_EventsEnriched ==
    Returned =>
        \A j \in 1..Len(events.ret) :
            /\ TypeAsStated(events.ret[j])
            /\ LevelAsStated(events.ret[j])
            /\ events.ret[j].location = satellite_data.location

\* C21 witness: a returned event that lasts less than 10 days
C21_Witness ==
    /\ Returned
    /\ \E j \in 1..Len(events.ret) :
          /\ events.ret[j].duration_days < 10
          /\ events.ret[j].event_type = "brief_flowering"
          /\ events.ret[j].location = satellite_data.location

\* ------------------------------------------------------------------------
\* C22, C23, C29: the season calculate_phenology_metrics reports
\* ------------------------------------------------------------------------

\* the call returned the metrics of a series with one date for each value
SeriesMeasured ==
    /\ Returned
    /\ metrics.exc = "none"
    /\ phenology_data.mapping
    /\ "time_series" \in phenology_data.keys
    /\ Len(phenology_data.dates) = Len(phenology_data.values)

ValuesOf(vals) == {vals[j] : j \in 1..Len(vals)}

Lowest(vals) == CHOOSE v \in ValuesOf(vals) : \A w \in ValuesOf(vals) : v <= w

Highest(vals) == CHOOSE v \in ValuesOf(vals) : \A w \in ValuesOf(vals) : w <= v

\* value i is below min + 0.2 * (max - min) and value i + 1 is not
CrossesAt(vals, i) ==
    /\ 5 * vals[i] < 4 * Lowest(vals) + Highest(vals)
    /\ 4 * Lowest(vals) + Highest(vals) <= 5 * vals[i + 1]

\* the positions i of a crossing among the first upto positions
Crossings(vals, upto) == {i \in 1..upto : i < Len(vals) /\ CrossesAt(vals, i)}

FirstOf(S) == CHOOSE i \in S : \A j \in S : i <= j

\* start_of_season is the date after the first crossing among the first
\* upto positions, and is absent when there is none
StartIsFirstCrossing(upto) ==
    IF Crossings(phenology_data.values, upto) = {}
    THEN "start_of_season" \notin DOMAIN metrics.ret
    ELSE /\ "start_of_season" \in DOMAIN metrics.ret
         /\ metrics.ret.start_of_season =
                phenology_data.dates[FirstOf(Crossings(phenology_data.values, upto)) + 1]

\* C22: start_of_season is the date of the first index i + 1 with
\* value[i] < min + 0.2 * (max - min) <= value[i + 1], for every series and
\* every position of the first crossing, the last two points and series of
\* fewer than 5 points included.
C22_StartIsFirstCrossing ==
    SeriesMeasured => StartIsFirstCrossing(Len(phenology_data.values))

\* what holds instead: only series of at least 5 points have a start, and
\* the crossing between the last two points is not looked at
StartOfLongSeries ==
    SeriesMeasured =>
        IF Len(phenology_data.values) < 5
        THEN "start_of_season" \notin DOMAIN metrics.ret
        ELSE StartIsFirstCrossing(Len(phenology_data.values) - 2)

\* the first index of the greatest value
GlobalMaximum(vals) ==
    FirstOf({i \in 1..Len(vals) : vals[i] = Highest(vals)})

\* the indices after the peak whose value is at most half the peak's
HalfPeakAfter(vals, p) == {i \in (p + 1)..Len(vals) : 2 * vals[i] <= vals[p]}

\* the index the end of the season is claimed to be at
EndIndex(vals) ==
    IF HalfPeakAfter(vals, GlobalMaximum(vals)) = {} THEN Len(vals)
    ELSE FirstOf(HalfPeakAfter(vals, GlobalMaximum(vals)))

EndIsReported ==
    /\ "end_of_season" \in DOMAIN metrics.ret
    /\ metrics.ret.end_of_season = phenology_data.dates[EndIndex(phenology_data.values)]

\* C23: for a non-empty series end_of_season is always reported: the date of
\* the first index after the global maximum whose value is at most half the
\* peak value, else of the last index, also when the maximum is the last point.
C23_EndAlwaysReported ==
    (SeriesMeasured /\ phenology_data.values # <<>>) => EndIsReported

\* what holds instead: the end is reported when the maximum is not the last
\* point, and is absent when it is
EndUnlessPeakIsLast ==
    (SeriesMeasured /\ phenology_data.values # <<>>) =>
        IF GlobalMaximum(phenology_data.values) = Len(phenology_data.values)
        THEN "end_of_season" \notin DOMAIN metrics.ret
        ELSE EndIsReported

\* the dates of the series are strictly increasing
IncreasingDates(dates) ==
    \A i \in 1..(Len(dates) - 1) : Strptime(dates[i]) < Strptime(dates[i + 1])

StartBeforePeak ==
    "start_of_season" \in DOMAIN metrics.ret =>
        Strptime(metrics.ret.start_of_season) <= Strptime(metrics.ret.peak_of_season)

PeakBeforeEnd ==
    "end_of_season" \in DOMAIN metrics.ret =>
        Strptime(metrics.ret.peak_of_season) <= Strptime(metrics.ret.end_of_season)

LengthNotNegative ==
    "season_length_days" \in DOMAIN metrics.ret => metrics.ret.season_length_days >= 0

\* C29: on strictly increasing dates, start_of_season <= peak_of_season <=
\* end_of_season whenever they are present, and season_length_days >= 0.
C29_SeasonOrdered ==
    (SeriesMeasured /\ phenology_data.values # <<>>
        /\ IncreasingDates(phenology_data.dates))
        => (StartBeforePeak /\ PeakBeforeEnd /\ LengthNotNegative)

\* what holds of the order: the end is never before the peak
EndNeverBeforePeak ==
    (SeriesMeasured /\ phenology_data.values # <<>>
        /\ IncreasingDates(phenology_data.dates))
        => PeakBeforeEnd

\* ------------------------------------------------------------------------
\* C24: the events of one call do not overlap
\* ------------------------------------------------------------------------

\* each event ends before the next one of the list starts
EventsApart(evs) ==
    \A j \in 1..(Len(evs) - 1) :
        Strptime(evs[j].end_date) < Strptime(evs[j + 1].start_date)

\* the call was given a series of strictly increasing dates
ReturnedOnIncreasingDates ==
    /\ Returned
    /\ HasSeries(satellite_data)
    /\ StrictlyIncreasingDates(satellite_data)

\* C24: on strictly increasing dates the events one call of detect_events
\* returns are pairwise non-overlapping and in increasing order of
\* start_date: each event's end_date is before the next event's start_date.
C24_EventsDoNotOverlap ==
    ReturnedOnIncreasingDates => EventsApart(events.ret)

\* what holds, of one call of _group_consecutive_exceedances: the events of
\* the runs of a mask do not overlap
GroupedRunsApart == Returned => EventsApart(run_events)

\* ------------------------------------------------------------------------
\* C25, C26: series on which a strategy finds nothing
\* ------------------------------------------------------------------------

\* the names that run _detect_by_change: its own, and every unregistered one
RunsChangeDetection(name) ==
    name \notin {"threshold", "seasonal_anomaly", "machine_learning"}

\* the names of the strategies that ask for 10 points: the seasonal one and
\* the clustering of _detect_by_ml
AsksForTenPoints(name) == name \in {"seasonal_anomaly", "machine_learning"}

\* C25: change_detection, and with it every unregistered algorithm name,
\* returns no event on a series of fewer than 5 good points; seasonal_anomaly
\* and the clustering strategy return none on fewer than 10 good points.
C25_MinimumGoodPoints ==
    (Returned /\ HasSeries(satellite_data)) =>
        /\ (RunsChangeDetection(algorithm) /\ GoodPointCount(satellite_data) < 5)
              => events.ret = <<>>
        /\ (AsksForTenPoints(algorithm) /\ GoodPointCount(satellite_data) < 10)
              => events.ret = <<>>

\* C25 witness: change_detection returned nothing on 4 good points, the
\* last two of them high
C25_Witness ==
    /\ Returned
    /\ HasSeries(satellite_data)
    /\ algorithm = "change_detection"
    /\ GoodPointCount(satellite_data) = 4
    /\ satellite_data.values = <<10, 10, 90, 90>>
    /\ "quality_flags" \notin satellite_data.ts_keys
    /\ events.ret = <<>>

\* tm_yday of a date string: the days from 1 January of its year, plus one
YearDay(s) == Strptime(s) - Strptime(<<s[1], 1, 1>>) + 1

\* the positions of the series whose flag is 'good': all of them when the
\* series has no flags
GoodPositions(data) ==
    {i \in 1..Len(data.values) :
        "quality_flags" \in data.ts_keys
            => (i <= Len(data.quality_flags) /\ data.quality_flags[i] = "good")}

\* no two good points of the series fall on the same day of the year
NoDayOfYearTwice(data) ==
    /\ Len(data.dates) = Len(data.values)
    /\ \A i \in 1..Len(data.dates) : ValidDateString(data.dates[i])
    /\ \A i, j \in GoodPositions(data) :
          i # j => YearDay(data.dates[i]) # YearDay(data.dates[j])

\* C26: seasonal_anomaly returns no event for a series in which no day of
\* the year occurs more than once among the good points.
C26_NoRepeatedDayNoEvents ==
    (Returned /\ HasSeries(satellite_data) /\ algorithm = "seasonal_anomaly"
        /\ NoDayOfYearTwice(satellite_data))
        => events.ret = <<>>

\* C26 witness: nothing returned for 18 good points within one year that
\* hold a plateau
C26_Witness ==
    /\ Returned
    /\ HasSeries(satellite_data)
    /\ algorithm = "seasonal_anomaly"
    /\ NoDayOfYearTwice(satellite_data)
    /\ Cardinality(GoodPositions(satellite_data)) = 18
    /\ \E i \in 1..17 : satellite_data.values[i] = 90 /\ satellite_data.values[i + 1] = 90
    /\ events.ret = <<>>

\* ------------------------------------------------------------------------
\* Specification of the pipeline of get_flowering_events (app.py), run on
\* two records at once: process_time_series with its default filters, then
\* detect_events; or detect_events on the two records as they are
\* ------------------------------------------------------------------------

\* the longest series given to the pipeline
MaxTwinLen == 6

\* the quality flags tried with a series of n points: the second point
\* cloudy, the first two repaired by an earlier run, the last one cloudy,
\* and one flag too few with the first point cloudy
TwinFlags(n) ==
    {[i \in 1..n |-> IF i = 2 THEN "cloudy" ELSE "good"],
     [i \in 1..n |-> IF i = 1 THEN "interpolated"
                     ELSE IF i = 2 THEN "outlier_corrected" ELSE "good"],
     [i \in 1..n |-> IF i = n THEN "cloudy" ELSE "good"],
     [i \in 1..(n - 1) |-> IF i = 1 THEN "cloudy" ELSE "good"]}

\* the point has a flag, and the flag is not 'good'
FlaggedNotGood(flags, i) == i <= Len(flags) /\ flags[i] # "good"

\* the values with other (in hundredths) at every point flagged not good
WithOther(nums, flags, other) ==
    [i \in 1..Len(nums) |-> IF FlaggedNotGood(flags, i) THEN other ELSE nums[i]]

\* a raw record, and whether every value of its list is a Python int:
\* np.array(ts['values']) is then an array of integers
TwinRecord(n, nums, flags, ints) ==
    [mapping |-> TRUE,
     dict |-> RawRecord(TimeSeriesDict({"dates", "values", "quality_flags", "units"},
                                       n, nums, flags, "NDVI")).dict,
     ints |-> ints]

\* the pairs of records of n points that differ, if at all, in the values
\* of the points flagged not good: lists of floats over 0.01 and 1.0, the
\* other values being 0.4; and lists of the ints 0, 1 and 2, the
\* other values being the float 0.5
TwinSeries(n) ==
    {<<TwinRecord(n, nums, flags, FALSE),
       TwinRecord(n, WithOther(nums, flags, other), flags, FALSE)>> :
        nums \in [1..n -> {1, 100}], flags \in TwinFlags(n), other \in {40}}
    \cup
    {<<TwinRecord(n, nums, flags, TRUE),
       TwinRecord(n, WithOther(nums, flags, other), flags, FALSE)>> :
        nums \in [1..n -> {0, 100, 200}], flags \in TwinFlags(n), other \in {50}}

\* the dict as detect_events reads it.  The detector's values are
\* hundredths: a value between two hundredths is rounded down and a nan is
\* 0, which happens only to values the cleaner has repaired
\* (GoodValuesAreHundredths).
AsSatelliteData(d) ==
    LET ts == d["time_series"]
        list == ts["values"]
    IN [mapping |-> TRUE,
        keys |-> DOMAIN d,
        ts_keys |-> DOMAIN ts,
        dates |-> ts["dates"],
        values |-> [i \in 1..Len(list.num) |->
                      IF i \in list.nan THEN 0 ELSE (100 * list.num[i]) \div list.den],
        quality_flags |-> ts["quality_flags"],
        location |-> d["location"],
        product_info |-> d["product_info"]]

\* the cast of a float to an element of an array of integers
TruncateTowardZero(num, den) ==
    IF num >= 0 THEN num \div den ELSE -((-num) \div den)

\* data_processor.py, line 90 and line 98 or lines 117-124: result is a copy
\* of the array of integers, and a float assigned to an element of it is
\* cast; a nan cannot be ("cannot convert float NaN to integer"), and
\* nothing has been stored then
AssignedToIntegers(before, after) ==
    IF ~HasTimeSeries(after) \/ "values" \notin DOMAIN after.ts THEN after
    ELSE IF after.ts["values"].nan # {} THEN Raise(before, "ValueError")
    ELSE [after EXCEPT !.ts =
            DictSet(after.ts, "values",
                    FloatList([i \in 1..Len(after.ts["values"].num) |->
                                 TruncateTowardZero(after.ts["values"].num[i],
                                                    after.ts["values"].den)], 1))]

\* lines 43-48 on a list of ints
RECURSIVE ApplyFiltersToIntegers(_, _, _)
ApplyFiltersToIntegers(names, s, empty_percentile) ==
    IF names = <<>> \/ s.exc # "none" THEN s
    ELSE ApplyFiltersToIntegers(
             Tail(names),
             AssignedToIntegers(s, ApplyFilter(Head(names), s, empty_percentile)),
             empty_percentile)

\* process_time_series(satellite_data), for one behaviour of np.percentile
ProcessedDict(raw, empty_percentile) ==
    Outcome(raw,
            IF raw.ints
            THEN Finish(ApplyFiltersToIntegers(default_filters, StartOf(raw),
                                               empty_percentile))
            ELSE ProcessTimeSeriesTry(raw, NoFilters, empty_percentile)).ret

InitTwin ==
    /\ pc = "call"
    /\ \E n \in 3..MaxTwinLen : twin_raw \in TwinSeries(n)
    /\ twin_data = <<twin_raw[1].dict, twin_raw[2].dict>>
    /\ twin_algorithm \in {"change_detection", "threshold"}
    /\ twin_events = <<>>
    /\ DetectorUnused
    /\ ConfidenceUnused
    /\ CleanerUnused
    /\ PhenologyAndPredictorUnused
    /\ CacheUnused
    /\ GroupingUnused
    /\ TrackingUnused

\* app.py, line 110, on each of the two records
CallProcessTimeSeriesOnBoth ==
    /\ pc = "call"
    /\ \E empty_percentile \in EmptyPercentile :
          twin_data' = <<ProcessedDict(twin_raw[1], empty_percentile),
                         ProcessedDict(twin_raw[2], empty_percentile)>>
    /\ pc' = "processed"
    /\ UNCHANGED <<twin_raw, twin_algorithm, twin_events, detector_vars,
                   confidence_vars, cleaner_vars, predictor_vars, phenology_vars,
                   cache_vars, grouping_vars, tracking_vars>>

\* app.py, line 113, on each of the two records: the set of the outcomes of
\* each call
CallDetectEventsOnBoth ==
    /\ pc \in {"call", "processed"}
    /\ twin_events' = <<DetectEvents(AsSatelliteData(twin_data[1]), twin_algorithm),
                        DetectEvents(AsSatelliteData(twin_data[2]), twin_algorithm)>>
    /\ pc' = "done"
    /\ UNCHANGED <<twin_raw, twin_data, twin_algorithm, detector_vars,
                   confidence_vars, cleaner_vars, predictor_vars, phenology_vars,
                   cache_vars, grouping_vars, tracking_vars>>

NextTwin == CallProcessTimeSeriesOnBoth \/ CallDetectEventsOnBoth

SpecTwin == InitTwin /\ [][NextTwin]_vars

\* ------------------------------------------------------------------------
\* C27: detect_events reads the good points only
\* ------------------------------------------------------------------------

TwinSeriesOf(k) == twin_raw[k].dict["time_series"]

\* the two records given agree on everything but the values of the points
\* that have a flag other than 'good'
AgreeButOnFlaggedPoints ==
    /\ twin_raw[1].dict["location"] = twin_raw[2].dict["location"]
    /\ TwinSeriesOf(1)["dates"] = TwinSeriesOf(2)["dates"]
    /\ TwinSeriesOf(1)["quality_flags"] = TwinSeriesOf(2)["quality_flags"]
    /\ Len(TwinSeriesOf(1)["values"].num) = Len(TwinSeriesOf(2)["values"].num)
    /\ \A i \in 1..Len(TwinSeriesOf(1)["values"].num) :
          FlaggedNotGood(TwinSeriesOf(1)["quality_flags"], i)
            \/ TwinSeriesOf(1)["values"].num[i] * TwinSeriesOf(2)["values"].den
                 = TwinSeriesOf(2)["values"].num[i] * TwinSeriesOf(1)["values"].den

\* the records went through process_time_series, which succeeded on both
WentThroughCleaner ==
    /\ "quality_metrics" \in DOMAIN twin_data[1]
    /\ "quality_metrics" \in DOMAIN twin_data[2]

\* C27: two records that agree on location, dates, flags and the values of
\* the good points, and differ only in the values of points flagged cloudy,
\* interpolated or outlier_corrected, give the same events, given to
\* detect_events as they are or through process_time_series.
C27_OnlyGoodPointsDecide ==
    (Returned /\ AgreeButOnFlaggedPoints) => twin_events[1] = twin_events[2]

\* what holds: detect_events gives the same events for the two records as
\* they are
DetectorReadsGoodPointsOnly ==
    (Returned /\ AgreeButOnFlaggedPoints
        /\ twin_data = <<twin_raw[1].dict, twin_raw[2].dict>>)
        => twin_events[1] = twin_events[2]

\* what holds: the pipeline gives the same events for two lists of floats
FloatsThroughPipeline ==
    (Returned /\ AgreeButOnFlaggedPoints /\ ~twin_raw[1].ints /\ ~twin_raw[2].ints)
        => twin_events[1] = twin_events[2]

\* two lists of floats that differ went through the cleaner, and
\* detect_events found an event in them
FloatsThroughPipelineWitness ==
    /\ Returned
    /\ AgreeButOnFlaggedPoints
    /\ ~twin_raw[1].ints
    /\ twin_raw[1] # twin_raw[2]
    /\ WentThroughCleaner
    /\ \E outcome \in twin_events[1] : outcome.ret # <<>>

\* every value of a point flagged good is a whole number of hundredths, in
\* the records given and in the records the cleaner returns
GoodValuesAreHundredths ==
    \A k \in 1..2 :
        LET ts == twin_data[k]["time_series"]
        IN \A i \in 1..Len(ts["values"].num) :
              (i <= Len(ts["quality_flags"]) /\ ts["quality_flags"][i] = "good")
                  => /\ i \notin ts["values"].nan
                     /\ (100 * ts["values"].num[i]) % ts["values"].den = 0

\* ------------------------------------------------------------------------
\* The flags and the counts of the cleaned series
\* ------------------------------------------------------------------------

\* the series given has one quality flag per value
OneFlagPerValue(data) ==
    /\ HasValues(data)
    /\ "quality_flags" \in DOMAIN data.dict["time_series"]
    /\ Len(data.dict["time_series"]["quality_flags"])
          = Len(data.dict["time_series"]["values"].num)

\* the call with the default filters has returned from the try block, on a
\* series with one flag per value
CleanedWithDefaults ==
    /\ Returned
    /\ ~processed_data.failed
    /\ DefaultFilters(filters)
    /\ OneFlagPerValue(raw_data)

CleanedFlags == {"good", "interpolated", "outlier_corrected"}

FlagsAreCleaned ==
    \A i \in 1..Len(ReturnedSeries["quality_flags"]) :
        ReturnedSeries["quality_flags"][i] \in CleanedFlags

LengthsKept ==
    /\ Len(ReturnedSeries["values"].num) = Len(GivenSeries["values"].num)
    /\ Len(ReturnedSeries["quality_flags"]) = Len(GivenSeries["quality_flags"])

ReturnedMetrics == processed_data.ret["quality_metrics"]

CountsAddUp ==
    ReturnedMetrics.good_quality_count + ReturnedMetrics.interpolated_count
        + ReturnedMetrics.outlier_corrected_count
            = ReturnedMetrics.total_observations

\* the counts are those of the flags returned
CountsAreOfReturnedFlags ==
    /\ ReturnedMetrics.total_observations = Len(ReturnedSeries["values"].num)
    /\ \A flag \in CleanedFlags :
          Cardinality({i \in 1..Len(ReturnedSeries["quality_flags"]) :
                          ReturnedSeries["quality_flags"][i] = flag})
              = CASE flag = "good" -> ReturnedMetrics.good_quality_count
                  [] flag = "interpolated" -> ReturnedMetrics.interpolated_count
                  [] flag = "outlier_corrected" -> ReturnedMetrics.outlier_corrected_count

\* data_completeness is the quotient good_quality_count / total_observations
CompletenessIsQuotient ==
    ReturnedMetrics.data_completeness
        = Ratio(ReturnedMetrics.good_quality_count, ReturnedMetrics.total_observations)

CompletenessInUnitInterval ==
    /\ ReturnedMetrics.data_completeness.k = "fin"
    /\ 0 <= ReturnedMetrics.data_completeness.p
    /\ ReturnedMetrics.data_completeness.p <= ReturnedMetrics.data_completeness.q

\* C28, as claimed: after process_time_series with the default filters has
\* succeeded on a series with one quality flag per value, every flag returned
\* is good, interpolated or outlier_corrected, the numbers of values and of
\* flags are those given, the three counts of quality_metrics add up to
\* total_observations, and data_completeness is good_quality_count divided
\* by total_observations, a number of [0, 1].
C28_CleanedFlagsAndCounts ==
    CleanedWithDefaults
        => /\ FlagsAreCleaned
           /\ LengthsKept
           /\ "quality_metrics" \in DOMAIN processed_data.ret
           /\ CountsAddUp
           /\ CompletenessIsQuotient
           /\ CompletenessInUnitInterval

\* the same without the quotient
CleanedAllButQuotient ==
    CleanedWithDefaults
        => /\ FlagsAreCleaned
           /\ LengthsKept
           /\ "quality_metrics" \in DOMAIN processed_data.ret
           /\ CountsAddUp
           /\ CountsAreOfReturnedFlags
           /\ CompletenessInUnitInterval

\* the quotient, of a series that is not empty
QuotientOfNonEmpty ==
    (CleanedWithDefaults /\ GivenSeries["values"].num # <<>>)
        => CompletenessIsQuotient

\* the three flags are all among those returned, for a series with a cloudy
\* point and an outlier among the good ones
C28_Witness ==
    /\ CleanedWithDefaults
    /\ \E i \in 1..Len(GivenSeries["quality_flags"]) :
          GivenSeries["quality_flags"][i] \notin CleanedFlags
    /\ ReturnedMetrics.good_quality_count > 0
    /\ ReturnedMetrics.interpolated_count > 0
    /\ ReturnedMetrics.outlier_corrected_count > 0
    /\ ReturnedMetrics.data_completeness.p < ReturnedMetrics.data_completeness.q

\* ------------------------------------------------------------------------
\* Expiry of an entry over the calls that follow
\* ------------------------------------------------------------------------

CacheEntries == CacheKeys \X CacheDataTypes

\* neither get nor exists reports the entry: its file is missing, cannot be
\* read, or holds an expiry time that has passed
NotReported(files, entry, now) ==
    /\ ~Exists(files, entry[1], entry[2], now)
    /\ Get(files, entry[1], entry[2], now).ret = None

\* the file of the entry is there and its expiry time has passed
ExpiryPassed(files, entry, now) ==
    /\ GetCacheFilePath(entry[1], entry[2]) \in DOMAIN files
    /\ files[GetCacheFilePath(entry[1], entry[2])].ok
    /\ now > files[GetCacheFilePath(entry[1], entry[2])].expires_at

\* the step is a set of the key of the entry
SetsKeyOf(entry) == cache_result'.op = "set" /\ cache_result'.key = entry[1]

\* the step is an update_expiry of the entry
UpdatesExpiryOf(entry) ==
    /\ cache_result'.op = "update_expiry"
    /\ cache_result'.key = entry[1]
    /\ cache_result'.data_type = entry[2]

\* C30, as claimed: expiry is permanent.  An entry that get and exists do
\* not report, its expiry time having passed, is not reported after any get,
\* exists, update_expiry, delete, clear or cleanup_expired, nor as time
\* passes: only a set of its key brings it back.
C30_ExpiryIsPermanent ==
    [][\A entry \in CacheEntries :
          (NotReported(cache_files, entry, clock) /\ ~SetsKeyOf(entry))
              => NotReported(cache_files', entry, clock')]_vars

\* the same without update_expiry, which holds
PermanentButForUpdateExpiry ==
    [][\A entry \in CacheEntries :
          (/\ NotReported(cache_files, entry, clock)
           /\ ~SetsKeyOf(entry)
           /\ ~UpdatesExpiryOf(entry))
              => NotReported(cache_files', entry, clock')]_vars

\* update_expiry brings back an entry only when its file is still there
\* with an expiry time that has passed
UpdateRevivesExpiredFile ==
    [][\A entry \in CacheEntries :
          (/\ NotReported(cache_files, entry, clock)
           /\ UpdatesExpiryOf(entry)
           /\ ~NotReported(cache_files', entry, clock'))
              => /\ ExpiryPassed(cache_files, entry, clock)
                 /\ cache_result'.ret]_vars

\* once the file is gone or cannot be read, update_expiry changes nothing
RemovedStaysRemoved ==
    [][\A entry \in CacheEntries :
          (/\ ~ExpiryPassed(cache_files, entry, clock)
           /\ NotReported(cache_files, entry, clock)
           /\ ~SetsKeyOf(entry))
              => NotReported(cache_files', entry, clock')]_vars

====
